---- MODULE Spec2Model ----
(***************************************************************************)
(* stackclass/tester: the step runner (src/src/runner.rs), the harness's  *)
(* teardown stack (src/src/harness.rs) and the managed process            *)
(* (src/src/executable.rs).                                                *)
(*                                                                         *)
(* The specifications share the variables:                                 *)
(*   SpecRunner  Runner::run over a list of steps, with each step's worker *)
(*               thread and its Harness teardown stack;                    *)
(*   SpecExec    the operations of Executable on an instance and its       *)
(*               clones, the OS processes they spawn and the clock that    *)
(*               Executable::wait polls against;                           *)
(*   SpecStage   Runner::run with step functions that work on Executable   *)
(*               values obtained from their Harness;                       *)
(*   SpecTester  cli::run: Context::from_env, Tester::validate and         *)
(*               Tester::run on top of Runner::run.                        *)
(***************************************************************************)
EXTENDS Integers, Sequences, FiniteSets, TLC

\* ---- bounds of the model -------------------------------------------------
MaxSteps == 2          \* longest step list handed to Runner::run
MaxTeardowns == 2      \* registrations one step's function makes at most
MaxInst == 2           \* Executable values (the original and its clones)
MaxProcs == 2          \* OS processes spawned in one behaviour
MaxTime == 2           \* ticks a wait() is followed for (one tick = one poll interval)
MaxTimeout == 1        \* largest configured Executable timeout, in ticks
MaxCalls == 4          \* method calls made on Executable values in one behaviour

\* ---- program constants ---------------------------------------------------
DefaultTimeoutSecs == 10   \* Case::default_timeout, a zero timeout means 10 s
PollInterval == 1          \* thread::sleep(100 ms) in Executable::wait: 1 tick

VARIABLES
    \* Runner::run
    steps,          \* self.steps: sequence of [timeout |-> seconds]
    is_debug,       \* the is_debug argument
    pc,             \* the runner's position: "start","recv","teardown","draining","done"
    index,          \* the loop index (1-based) of the step being run
    result,         \* the value Runner::run returned: "none", "true" or "false"
    worker,         \* per step, the spawned thread: "unstarted","running","returned","panicked"
    chan,           \* per step, the mpsc channel's queue of results
    teardown_funcs, \* per step, the Harness's Vec of teardown functions (ids)
    lock,           \* per step, who holds the teardown Mutex: "free" or "runner"
    outcome,        \* per step, what the runner recorded: "none","passed","failed","timedout"
    registered,     \* history: per step, every id pushed, in order
    concludedAt,    \* history: per step, Len(registered) when the outcome was recorded (-1 before)
    invoked,        \* history: per step, the ids the runner invoked, in order
    drains,         \* history: per step, completed calls of run_teardown_funcs
    fnResult,       \* history: per step, what the function returned and whether the
                    \* runner had already recorded the step's outcome by then
    liveAtOutcome,  \* history: per step, the processes started by its function that were
                    \* running when the runner recorded the step's outcome
    log,            \* the lines logged by the runner
    \* Executable
    timeout,        \* self.timeout, in ticks
    inst,           \* per Executable value: "absent","live","dropped"
    process,        \* per Executable value: self.process, 0 for None or the pid of the shared Child
    rx,             \* per Executable value: self.rx, 0 for None or the pid whose capture channel it is
    proc,           \* per pid, the OS process: "none","running","exited","killed"
    spawner,        \* history: per pid, the Executable value whose start spawned it
    overdue,        \* history: per Executable value, whether during its wait() in progress the
                    \* process was still running after more than `timeout` had elapsed
    capPending,     \* per pid, the capture threads that have not sent yet
    chanBuf,        \* per pid, the streams whose buffer sits in the capture channel
    wpos,           \* per Executable value, where its wait() call stands: "idle","poll","sleep"
    elapsed,        \* per Executable value, start.elapsed() of the wait() in progress, in ticks
    wake,           \* per Executable value, the value of elapsed at which the sleep of wait() ends
    owner,          \* history: per Executable value, the step whose function created it
                    \* with new_executable (0: not created by a step's function)
    calls,          \* history: the number of method calls made so far
    last,           \* the last completed call on an Executable value:
                    \* [inst, op, res, out, pre, overdue, status]
    stdin_taken,    \* the pids whose Child has had its stdin taken (closed)
    rws,            \* per Executable value, the run_with_stdin call made on it: where it
                    \* stands, the steps it has performed, and what it returned
    mutex,          \* per Executable value, the MutexGuard of the shared Child its thread
                    \* holds: [pid, op, res], pid 0 when it holds none, res "none" until
                    \* the access has been made
    \* Tester and cli::run
    env,            \* the inputs: which variables the environment holds, the stage list
                    \* it requests, whether the executable can be found, and who calls
    definition,     \* Definition::cases: the slugs of the catalog
    context,        \* what Context::from_env returned: [res, cases]
    cli,            \* [pc, validated, run, code]: where cli::run (or a caller of
                    \* Tester::new and Tester::run) stands, what validate and
                    \* Tester::run returned, and the exit code
    \* Two calls of Runner::run
    twin            \* per value of the is_debug argument, a call of Runner::run on the
                    \* same steps: [pc, index, result, worker, chan, teardown_funcs,
                    \* lock, outcome, registered, invoked, log]

runnerVars == <<steps, is_debug, pc, index, result, worker, chan, teardown_funcs,
                lock, outcome, registered, concludedAt, invoked, drains, fnResult,
                liveAtOutcome, log>>
ioVars == <<stdin_taken, rws, mutex>>
execVars == <<timeout, inst, process, rx, proc, spawner, overdue,
              capPending, chanBuf, wpos, elapsed, wake, owner, calls, last, ioVars>>
testerVars == <<env, definition, context, cli>>
vars == <<runnerVars, execVars, testerVars, twin>>

StepIds == 1..MaxSteps
Insts == 1..MaxInst
Pids == 1..MaxProcs

\* ==========================================================================
\* Runner::run, the worker threads and the Harness teardown stack
\* ==========================================================================

NumSteps == Len(steps)

\* Case::default_timeout: a zero timeout means the default of 10 seconds.
default_timeout(t) == IF t = 0 THEN DefaultTimeoutSecs ELSE t

Line(m, s) == [msg |-> m, secs |-> s]

\* Runner::report_test_error: the error, then a line that depends on is_debug.
report_test_error(err, debug) ==
    <<err, IF debug THEN Line("Test failed", 0) ELSE Line("Test failed (hint)", 0)>>

\* The receiver `rx` of step i lives from the channel's creation to the end of the
\* loop iteration (or the return) of step i.
RxAlive(i) == index = i /\ pc \in {"recv", "teardown", "draining"}

\* No Tester is involved: Runner::run or an Executable is used on its own.
NoTester ==
    /\ env = [dir |-> TRUE, json |-> "list", cases |-> <<>>, exe |-> TRUE, entry |-> "none"]
    /\ definition = {}
    /\ context = [res |-> "none", cases |-> <<>>]
    /\ cli = [pc |-> "none", validated |-> "none", run |-> "none", code |-> "none"]

\* A call of Runner::run about to enter its loop.
NewRun ==
    [pc |-> "start", index |-> 1, result |-> "none",
     worker |-> [i \in StepIds |-> "unstarted"],
     chan |-> [i \in StepIds |-> <<>>],
     teardown_funcs |-> [i \in StepIds |-> <<>>],
     lock |-> [i \in StepIds |-> "free"],
     outcome |-> [i \in StepIds |-> "none"],
     registered |-> [i \in StepIds |-> <<>>],
     invoked |-> [i \in StepIds |-> <<>>],
     log |-> <<>>]

RunnerIdle ==
    /\ pc = "start" /\ index = 1 /\ result = "none"
    /\ liveAtOutcome = [i \in StepIds |-> {}]
    /\ worker = [i \in StepIds |-> "unstarted"]
    /\ chan = [i \in StepIds |-> <<>>]
    /\ teardown_funcs = [i \in StepIds |-> <<>>]
    /\ lock = [i \in StepIds |-> "free"]
    /\ outcome = [i \in StepIds |-> "none"]
    /\ registered = [i \in StepIds |-> <<>>]
    /\ concludedAt = [i \in StepIds |-> -1]
    /\ invoked = [i \in StepIds |-> <<>>]
    /\ drains = [i \in StepIds |-> 0]
    /\ fnResult = [i \in StepIds |-> [val |-> "none", late |-> FALSE]]
    /\ log = <<>>
    /\ twin = [d \in BOOLEAN |-> NewRun]

\* The processes started by the function of step s that are running.
LiveOf(s) ==
    {p \in Pids : proc[p] = "running" /\ spawner[p] # 0 /\ owner[spawner[p]] = s}

\* for (index, step) in self.steps.iter().enumerate(): Harness::new, the channel,
\* thread::spawn of the step's function.
StartStep ==
    /\ pc = "start" /\ index <= NumSteps
    /\ worker' = [worker EXCEPT ![index] = "running"]
    /\ teardown_funcs' = [teardown_funcs EXCEPT ![index] = <<>>]
    /\ chan' = [chan EXCEPT ![index] = <<>>]
    /\ log' = Append(log, Line("Running tests", 0))
    /\ pc' = "recv"
    /\ UNCHANGED <<execVars, testerVars, twin, liveAtOutcome, steps, is_debug, index, result, lock, outcome, registered,
                   concludedAt, invoked, drains, fnResult>>

\* The loop is over: Runner::run returns true.
ReturnTrue ==
    /\ pc = "start" /\ index > NumSteps
    /\ result' = "true"
    /\ pc' = "done"
    /\ UNCHANGED <<execVars, testerVars, twin, liveAtOutcome, steps, is_debug, index, worker, chan, teardown_funcs, lock, outcome,
                   registered, concludedAt, invoked, drains, fnResult, log>>

Conclude(o, lines) ==
    /\ outcome' = [outcome EXCEPT ![index] = o]
    /\ concludedAt' = [concludedAt EXCEPT ![index] = Len(registered[index])]
    /\ liveAtOutcome' = [liveAtOutcome EXCEPT ![index] = LiveOf(index)]
    /\ log' = log \o lines
    /\ pc' = "teardown"
    /\ UNCHANGED <<execVars, testerVars, twin, steps, is_debug, index, result, worker, teardown_funcs, lock,
                   registered, invoked, drains, fnResult>>

\* A mutant of RecvResult: a step that did not pass returns at once, without teardown.
RecvResultNoTeardown ==
    /\ pc = "recv" /\ chan[index] # <<>>
    /\ chan' = [chan EXCEPT ![index] = Tail(@)]
    /\ outcome' = [outcome EXCEPT ![index] = IF Head(chan[index]) = "ok" THEN "passed" ELSE "failed"]
    /\ concludedAt' = [concludedAt EXCEPT ![index] = Len(registered[index])]
    /\ liveAtOutcome' = [liveAtOutcome EXCEPT ![index] = LiveOf(index)]
    /\ log' = log
    /\ pc' = IF Head(chan[index]) = "ok" THEN "teardown" ELSE "done"
    /\ result' = IF Head(chan[index]) = "ok" THEN result ELSE "false"
    /\ UNCHANGED <<execVars, testerVars, twin, steps, is_debug, index, worker, teardown_funcs, lock,
                   registered, invoked, drains, fnResult>>

\* rx.recv_timeout(timeout) returns the worker's result: Ok(Ok(())) or Ok(Err(err)).
RecvResult ==
    /\ pc = "recv" /\ chan[index] # <<>>
    /\ chan' = [chan EXCEPT ![index] = Tail(@)]
    /\ IF Head(chan[index]) = "ok"
         THEN Conclude("passed", <<Line("Test passed.", 0)>>)
         ELSE Conclude("failed", report_test_error(Line("fail", 0), is_debug))

TimedOutLines ==
    report_test_error(Line("timed out", default_timeout(steps[index].timeout)), is_debug)

\* A mutant of RecvTimeout: the timeout wins even when the result was delivered.
RecvTimeoutEager ==
    /\ pc = "recv" /\ worker[index] # "panicked"
    /\ chan' = chan
    /\ Conclude("timedout", TimedOutLines)

\* A mutant of RecvTimeout: the Err(_) arm yields true, so a timed-out step counts as passed.
RecvTimeoutPasses ==
    /\ pc = "recv" /\ chan[index] = <<>> /\ worker[index] = "running"
    /\ chan' = chan
    /\ Conclude("passed", TimedOutLines)

\* A mutant of RecvTimeout: rx.recv() without a timeout, which reaches the Err(_)
\* arm only when the worker is gone.
RecvTimeoutNever ==
    /\ pc = "recv" /\ chan[index] = <<>> /\ worker[index] \notin {"running", "panicked"}
    /\ chan' = chan
    /\ Conclude("timedout", TimedOutLines)

\* rx.recv_timeout(timeout) returns Err(Timeout): nothing was delivered in time.
RecvTimeout ==
    /\ pc = "recv" /\ chan[index] = <<>> /\ worker[index] = "running"
    /\ chan' = chan
    /\ Conclude("timedout", TimedOutLines)

\* A mutant of RecvDisconnected: a worker that died without sending counts as passed.
RecvDisconnectedPasses ==
    /\ pc = "recv" /\ chan[index] = <<>> /\ worker[index] = "panicked"
    /\ chan' = chan
    /\ Conclude("passed", <<Line("Test passed.", 0)>>)

\* rx.recv_timeout(timeout) returns Err(Disconnected): the worker died without
\* sending; the same Err(_) arm reports it as a timeout.
RecvDisconnected ==
    /\ pc = "recv" /\ chan[index] = <<>> /\ worker[index] = "panicked"
    /\ chan' = chan
    /\ Conclude("timedout", TimedOutLines)

\* A mutant of LockTeardown: run_teardown_funcs is called without awaiting the result.
LockTeardownEarly ==
    /\ pc \in {"recv", "teardown"} /\ lock[index] = "free"
    /\ lock' = [lock EXCEPT ![index] = "runner"]
    /\ pc' = "draining"
    /\ UNCHANGED <<execVars, testerVars, twin, liveAtOutcome, steps, is_debug, index, result, worker, chan, teardown_funcs, outcome,
                   registered, concludedAt, invoked, drains, fnResult, log>>

\* Harness::run_teardown_funcs: self.teardown_funcs.lock().
LockTeardown ==
    /\ pc = "teardown" /\ lock[index] = "free"
    /\ lock' = [lock EXCEPT ![index] = "runner"]
    /\ pc' = "draining"
    /\ UNCHANGED <<execVars, testerVars, twin, liveAtOutcome, steps, is_debug, index, result, worker, chan, teardown_funcs, outcome,
                   registered, concludedAt, invoked, drains, fnResult, log>>

\* A mutant of PopTeardown: the oldest registration is taken first.
PopTeardownFifo ==
    /\ pc = "draining" /\ teardown_funcs[index] # <<>>
    /\ invoked' = [invoked EXCEPT ![index] = Append(@, Head(teardown_funcs[index]))]
    /\ teardown_funcs' = [teardown_funcs EXCEPT ![index] = Tail(@)]
    /\ UNCHANGED <<execVars, testerVars, twin, liveAtOutcome, steps, is_debug, pc, index, result, worker, chan, lock, outcome,
                   registered, concludedAt, drains, fnResult, log>>

\* while let Some(func) = funcs.pop() { func(); }
PopTeardown ==
    /\ pc = "draining" /\ teardown_funcs[index] # <<>>
    /\ LET n == Len(teardown_funcs[index]) IN
        /\ invoked' = [invoked EXCEPT ![index] = Append(@, teardown_funcs[index][n])]
        /\ teardown_funcs' = [teardown_funcs EXCEPT ![index] = SubSeq(@, 1, n - 1)]
    /\ UNCHANGED <<execVars, testerVars, twin, liveAtOutcome, steps, is_debug, pc, index, result, worker, chan, lock, outcome,
                   registered, concludedAt, drains, fnResult, log>>

\* A mutant of FinishTeardown: the `return false` of a step that did not pass is missing.
FinishTeardownContinue ==
    /\ pc = "draining" /\ teardown_funcs[index] = <<>>
    /\ lock' = [lock EXCEPT ![index] = "free"]
    /\ drains' = [drains EXCEPT ![index] = @ + 1]
    /\ index' = index + 1 /\ pc' = "start" /\ result' = result
    /\ UNCHANGED <<execVars, testerVars, twin, liveAtOutcome, steps, is_debug, worker, chan, teardown_funcs, outcome, registered,
                   concludedAt, invoked, fnResult, log>>

\* A mutant of FinishTeardown: after the teardown the channel is looked at again, and
\* a result that has arrived by then decides whether the run goes on.
FinishTeardownRecheck ==
    /\ pc = "draining" /\ teardown_funcs[index] = <<>>
    /\ lock' = [lock EXCEPT ![index] = "free"]
    /\ drains' = [drains EXCEPT ![index] = @ + 1]
    /\ IF outcome[index] = "passed" \/ (chan[index] # <<>> /\ Head(chan[index]) = "ok")
         THEN index' = index + 1 /\ pc' = "start" /\ result' = result
         ELSE index' = index /\ pc' = "done" /\ result' = "false"
    /\ UNCHANGED <<execVars, testerVars, twin, liveAtOutcome, steps, is_debug, worker, chan, teardown_funcs, outcome, registered,
                   concludedAt, invoked, fnResult, log>>

\* The stack is empty: run_teardown_funcs returns (the guard is released), then
\* `if !result { return false; }` or the next iteration.
FinishTeardown ==
    /\ pc = "draining" /\ teardown_funcs[index] = <<>>
    /\ lock' = [lock EXCEPT ![index] = "free"]
    /\ drains' = [drains EXCEPT ![index] = @ + 1]
    /\ IF outcome[index] = "passed"
         THEN index' = index + 1 /\ pc' = "start" /\ result' = result
         ELSE index' = index /\ pc' = "done" /\ result' = "false"
    /\ UNCHANGED <<execVars, testerVars, twin, liveAtOutcome, steps, is_debug, worker, chan, teardown_funcs, outcome, registered,
                   concludedAt, invoked, fnResult, log>>

\* A mutant of WorkerRegister: every step pushes onto the stack of the first step,
\* as if the run had one Harness.
WorkerRegisterFirst(i) ==
    /\ worker[i] = "running" /\ lock[1] = "free"
    /\ Len(registered[i]) < MaxTeardowns
    /\ teardown_funcs' = [teardown_funcs EXCEPT ![1] = Append(@, Len(registered[i]) + 1)]
    /\ registered' = [registered EXCEPT ![i] = Append(@, Len(registered[i]) + 1)]
    /\ UNCHANGED <<execVars, testerVars, twin, liveAtOutcome, steps, is_debug, pc, index, result, worker, chan, lock, outcome,
                   concludedAt, invoked, drains, fnResult, log>>

\* A mutant of WorkerRegister: the push is made without taking the stack's lock.
WorkerRegisterNoLock(i) ==
    /\ worker[i] = "running"
    /\ Len(registered[i]) < MaxTeardowns
    /\ teardown_funcs' = [teardown_funcs EXCEPT ![i] = Append(@, Len(registered[i]) + 1)]
    /\ registered' = [registered EXCEPT ![i] = Append(@, Len(registered[i]) + 1)]
    /\ UNCHANGED <<execVars, testerVars, twin, liveAtOutcome, steps, is_debug, pc, index, result, worker, chan, lock, outcome,
                   concludedAt, invoked, drains, fnResult, log>>

\* The step's function calls harness.register_teardown_func: lock, push, unlock.
WorkerRegister(i) ==
    /\ worker[i] = "running" /\ lock[i] = "free"
    /\ Len(registered[i]) < MaxTeardowns
    /\ teardown_funcs' = [teardown_funcs EXCEPT ![i] = Append(@, Len(registered[i]) + 1)]
    /\ registered' = [registered EXCEPT ![i] = Append(@, Len(registered[i]) + 1)]
    /\ UNCHANGED <<execVars, testerVars, twin, liveAtOutcome, steps, is_debug, pc, index, result, worker, chan, lock, outcome,
                   concludedAt, invoked, drains, fnResult, log>>

\* The step's function returns r and the worker sends it: tx.send(result).unwrap().
\* With the receiver gone the send fails and the unwrap panics the worker.
WorkerReturn(i, r) ==
    /\ worker[i] = "running"
    /\ fnResult' = [fnResult EXCEPT ![i] = [val |-> r, late |-> outcome[i] # "none"]]
    /\ IF RxAlive(i)
         THEN /\ chan' = [chan EXCEPT ![i] = Append(@, r)]
              /\ worker' = [worker EXCEPT ![i] = "returned"]
         ELSE /\ chan' = chan
              /\ worker' = [worker EXCEPT ![i] = "panicked"]
    /\ UNCHANGED <<execVars, testerVars, twin, liveAtOutcome, steps, is_debug, pc, index, result, teardown_funcs, lock, outcome,
                   registered, concludedAt, invoked, drains, log>>

\* The step's function panics: the worker ends and drops tx without sending.
WorkerPanic(i) ==
    /\ worker[i] = "running"
    /\ worker' = [worker EXCEPT ![i] = "panicked"]
    /\ fnResult' = [fnResult EXCEPT ![i] = [val |-> "panic", late |-> outcome[i] # "none"]]
    /\ UNCHANGED <<execVars, testerVars, twin, liveAtOutcome, steps, is_debug, pc, index, result, chan, teardown_funcs, lock, outcome,
                   registered, concludedAt, invoked, drains, log>>

\* The record of a completed call: the value it was made on, the method, what it
\* returned, the streams whose captured buffer it returned, whether is_running()
\* held when it was made, (for wait) whether the process was still running after
\* more than the timeout had elapsed, and (for a wait that returns Ok) the process
\* whose ExitStatus it returned, 0 otherwise.
Result(i, op, res, out, pre, od) ==
    [inst |-> i, op |-> op, res |-> res, out |-> out, pre |-> pre, overdue |-> od,
     status |-> 0]

NoCall == Result(0, "none", "none", {}, FALSE, FALSE)

\* No run_with_stdin call has been made on the value.
NoRun == [pos |-> "idle", ops |-> <<>>, ret |-> "none", out |-> {}, status |-> 0]

\* The value's thread holds no MutexGuard.
NoGuard == [pid |-> 0, op |-> "none", res |-> "none"]

\* Executable::new: no process, no channel; nothing spawned yet.
ExecIdle ==
    /\ process = [i \in Insts |-> 0]
    /\ rx = [i \in Insts |-> 0]
    /\ proc = [p \in Pids |-> "none"]
    /\ spawner = [p \in Pids |-> 0]
    /\ overdue = [i \in Insts |-> FALSE]
    /\ capPending = [p \in Pids |-> {}]
    /\ chanBuf = [p \in Pids |-> {}]
    /\ wpos = [i \in Insts |-> "idle"]
    /\ elapsed = [i \in Insts |-> 0]
    /\ wake = [i \in Insts |-> 0]
    /\ owner = [i \in Insts |-> 0]
    /\ calls = 0
    /\ last = NoCall
    /\ stdin_taken = {}
    /\ rws = [i \in Insts |-> NoRun]
    /\ mutex = [i \in Insts |-> NoGuard]

InitRunner ==
    /\ NoTester
    /\ steps \in UNION {[1..n -> [timeout : {0, 2}]] : n \in 0..MaxSteps}
    /\ is_debug \in BOOLEAN
    /\ RunnerIdle
    /\ ExecIdle
    /\ timeout = 0
    /\ inst = [i \in Insts |-> "absent"]

NextRunner ==
    \/ StartStep
    \/ ReturnTrue
    \/ RecvResult
    \/ RecvTimeout
    \/ RecvDisconnected
    \/ LockTeardown
    \/ PopTeardown
    \/ FinishTeardown
    \/ \E i \in StepIds : WorkerRegister(i)
    \/ \E i \in StepIds, r \in {"ok", "err"} : WorkerReturn(i, r)
    \/ \E i \in StepIds : WorkerPanic(i)

SpecRunner == InitRunner /\ [][NextRunner]_vars

\* The steps of the thread that executes Runner::run.
RunnerThread ==
    \/ StartStep
    \/ ReturnTrue
    \/ RecvResult
    \/ RecvTimeout
    \/ RecvDisconnected
    \/ LockTeardown
    \/ PopTeardown
    \/ FinishTeardown

\* Runner::run with its thread scheduled: whenever the runner can take a step it
\* eventually takes one (recv_timeout returns after the timeout at the latest, a
\* teardown function that is invoked returns). Nothing is assumed of the workers:
\* a step's function may run for ever.
SpecRunnerLive == InitRunner /\ [][NextRunner]_vars /\ WF_vars(RunnerThread)

\* ==========================================================================
\* Claims about Runner::run (checked under SpecRunner)
\* ==========================================================================

Started(i) == worker[i] # "unstarted"
NotPassed(k) ==
    \/ outcome[k] \in {"failed", "timedout"}
    \/ fnResult[k].val = "err" /\ ~fnResult[k].late

\* C1: once step k's function has returned an error in time, or the runner has
\* recorded step k as failed or timed out, the function of no step after k is
\* ever started, Runner::run never returns true, and when it returns it
\* returns false.
C1_FailFast ==
    \A k \in 1..NumSteps :
        NotPassed(k) =>
            /\ \A j \in (k + 1)..NumSteps : ~Started(j)
            /\ result # "true"
            /\ pc = "done" => result = "false"

\* A run that ended at a timed-out or failed step with steps still after it.
C1_Witness ==
    /\ pc = "done" /\ result = "false"
    /\ \E k \in 1..NumSteps : k < NumSteps /\ outcome[k] = "timedout"
    /\ \E k \in 1..NumSteps : k < NumSteps /\ ~Started(k + 1)

Descending(s) == \A a \in 1..Len(s) : s[a] = s[1] - a + 1

\* C3: the teardown actions of step i are invoked only after the step's
\* outcome is recorded, in strict reverse order of registration and each at most
\* once; when run_teardown_funcs has returned, every action registered before the
\* outcome was recorded (and every one registered before the drain took the lock)
\* has been invoked exactly once, none skipped; and Runner::run does not return
\* with a concluded step undrained.
C3_TeardownLifo ==
    \A i \in 1..NumSteps :
        /\ outcome[i] = "none" => invoked[i] = <<>>
        /\ Descending(invoked[i])
        /\ \A a \in 1..Len(invoked[i]) : invoked[i][a] \in 1..Len(registered[i])
        /\ drains[i] <= 1
        /\ drains[i] = 1 =>
              /\ Len(invoked[i]) >= concludedAt[i]
              /\ invoked[i] # <<>> => invoked[i][Len(invoked[i])] = 1
        /\ (pc = "done" /\ outcome[i] # "none") => drains[i] = 1

\* A drained step with as many registrations as the bound allows, all invoked.
C3_Witness ==
    \E i \in 1..NumSteps :
        /\ drains[i] = 1
        /\ Len(registered[i]) = MaxTeardowns
        /\ Len(invoked[i]) = MaxTeardowns
        /\ invoked[i][1] = MaxTeardowns

\* C4: run_teardown_funcs of a step starts only after the step's outcome is
\* recorded, it has returned before the next step's function is started, and
\* when Runner::run has returned every step it started has an outcome and a
\* completed run_teardown_funcs, whatever the outcome.
C4_TeardownAlways ==
    \A i \in 1..NumSteps :
        /\ (lock[i] = "runner" \/ invoked[i] # <<>> \/ drains[i] > 0) => outcome[i] # "none"
        /\ (i > 1 /\ Started(i)) => (drains[i - 1] = 1 /\ lock[i - 1] = "free")
        /\ pc = "done" => (Started(i) => (outcome[i] # "none" /\ drains[i] = 1 /\ lock[i] = "free"))

\* A finished run with a passed step and a failed step, both drained.
C4_Witness ==
    /\ pc = "done"
    /\ \E i, j \in 1..NumSteps :
        /\ outcome[i] = "passed" /\ drains[i] = 1
        /\ outcome[j] = "failed" /\ drains[j] = 1 /\ invoked[j] # <<>>

\* A finished run whose last step timed out and was drained.
C4_WitnessTimeout ==
    /\ pc = "done"
    /\ \E j \in 1..NumSteps : outcome[j] = "timedout" /\ drains[j] = 1 /\ invoked[j] # <<>>

\* ==========================================================================
\* Executable: start, write_stdin, wait, kill, try_wait, is_running, clone, drop
\* ==========================================================================

Streams == {"stdout", "stderr"}

\* Executable::is_running: a handle is held and try_wait() on it says Ok(None).
is_running(i) == process[i] # 0 /\ proc[process[i]] = "running"

\* Pids are handed out in order; the next spawn gets NewPid.
Spawned == {p \in Pids : proc[p] # "none"}
NewPid == Cardinality(Spawned) + 1
CanSpawn == NewPid <= MaxProcs

\* A method taking &self or &mut self can be called on a live value that has no
\* wait() in progress (wait holds the exclusive borrow until it returns).
Callable(i) == inst[i] = "live" /\ wpos[i] = "idle"

\* One more method call is made, within the bound on calls.
Call == calls < MaxCalls /\ calls' = calls + 1

\* What cmd.spawn() and the two take() calls of start can come to.
SpawnOutcomes == {"ok", "spawn_failed", "stdout_failed", "stderr_failed"}

\* Value i lets go of its receiver: what is buffered in that channel is dropped, and
\* the sends still to come from its capture threads fail and are ignored
\* (`let _ = tx.send(..)`), so they are no longer followed.
DropRx(f, i) == [p \in Pids |-> IF p = rx[i] THEN {} ELSE f[p]]

\* A mutant of Spawn: a stream that cannot be taken is reported as ProcessExecution.
SpawnAsExecution(i, o) ==
    IF o = "spawn_failed"
      THEN /\ last' = Result(i, "start", "ProcessExecution", {}, FALSE, FALSE)
           /\ UNCHANGED <<process, rx, proc, spawner, capPending, chanBuf>>
      ELSE /\ CanSpawn
           /\ proc' = [proc EXCEPT ![NewPid] = "running"]
           /\ spawner' = [spawner EXCEPT ![NewPid] = i]
           /\ IF o = "ok"
                THEN /\ capPending' = [DropRx(capPending, i) EXCEPT ![NewPid] = Streams]
                     /\ chanBuf' = DropRx(chanBuf, i)
                     /\ process' = [process EXCEPT ![i] = NewPid]
                     /\ rx' = [rx EXCEPT ![i] = NewPid]
                     /\ last' = Result(i, "start", "Ok", {}, FALSE, FALSE)
                ELSE /\ last' = Result(i, "start", "ProcessExecution", {}, FALSE, FALSE)
                     /\ UNCHANGED <<process, rx, capPending, chanBuf>>

\* The part of start after the is_running check.
Spawn(i, o) ==
    IF o = "spawn_failed"
      THEN \* cmd.spawn() fails: Err(ProcessExecution), nothing was created
           /\ last' = Result(i, "start", "ProcessExecution", {}, FALSE, FALSE)
           /\ UNCHANGED <<process, rx, proc, spawner, capPending, chanBuf>>
      ELSE /\ CanSpawn
           /\ proc' = [proc EXCEPT ![NewPid] = "running"]
           /\ spawner' = [spawner EXCEPT ![NewPid] = i]
           /\ IF o = "ok"
                THEN \* both capture threads are spawned, handle and receiver are stored
                     \* (the receiver stored before is dropped)
                     /\ capPending' = [DropRx(capPending, i) EXCEPT ![NewPid] = Streams]
                     /\ chanBuf' = DropRx(chanBuf, i)
                     /\ process' = [process EXCEPT ![i] = NewPid]
                     /\ rx' = [rx EXCEPT ![i] = NewPid]
                     /\ last' = Result(i, "start", "Ok", {}, FALSE, FALSE)
                ELSE \* `?` returns after the spawn: the local Child is dropped, which
                     \* does not kill the process; self.process and self.rx keep their values
                     /\ last' = Result(i, "start",
                                       IF o = "stdout_failed" THEN "StdoutCaptureFailed"
                                                              ELSE "StderrCaptureFailed", {}, FALSE, FALSE)
                     /\ UNCHANGED <<process, rx, capPending, chanBuf>>

\* A mutant of Start: the is_running check is missing.
StartNoCheck(i) ==
    /\ Callable(i) /\ Call
    /\ \E o \in SpawnOutcomes : Spawn(i, o)
    /\ UNCHANGED <<runnerVars, testerVars, twin, ioVars, owner, timeout, inst, overdue, wpos, elapsed, wake>>

\* A mutant of StartOp: start is rejected whenever a handle is held, also when the
\* process behind it has ended.
StartHandleCheck(i) ==
    /\ Callable(i) /\ Call
    /\ IF process[i] # 0
         THEN /\ last' = Result(i, "start", "ProcessAlreadyRunning", {}, is_running(i), FALSE)
              /\ UNCHANGED <<process, rx, proc, spawner, capPending, chanBuf>>
         ELSE \E o \in SpawnOutcomes : Spawn(i, o)
    /\ UNCHANGED <<runnerVars, testerVars, twin, stdin_taken, mutex, owner, timeout, inst, overdue, wpos, elapsed, wake>>

\* The body of Executable::start, for a call on its own or from run_with_stdin.
StartOp(i) ==
    /\ Callable(i) /\ Call
    /\ IF is_running(i)
         THEN /\ last' = Result(i, "start", "ProcessAlreadyRunning", {}, TRUE, FALSE)
              /\ UNCHANGED <<process, rx, proc, spawner, capPending, chanBuf>>
         ELSE \E o \in SpawnOutcomes : Spawn(i, o)
    /\ UNCHANGED <<runnerVars, testerVars, twin, stdin_taken, mutex, owner, timeout, inst, overdue, wpos, elapsed, wake>>

\* Executable::start
Start(i) == StartOp(i) /\ UNCHANGED rws

\* A mutant of WriteStdin: the is_running check is missing.
WriteStdinNoCheck(i) ==
    /\ Callable(i) /\ Call
    /\ \E r \in {"Ok", "ProcessExecution"} :
          last' = Result(i, "write_stdin", r, {}, is_running(i), FALSE)
    /\ UNCHANGED <<runnerVars, testerVars, twin, ioVars, owner, timeout, inst, process, rx, proc, spawner, overdue,
                   capPending, chanBuf, wpos, elapsed, wake>>

\* The body of Executable::write_stdin: NoProcessRunning unless is_running();
\* StdinCaptureFailed when the Child's stdin has been taken; then the write succeeds
\* or fails with ProcessExecution.
WriteStdinOp(i) ==
    /\ Callable(i) /\ Call
    /\ IF ~is_running(i)
         THEN last' = Result(i, "write_stdin", "NoProcessRunning", {}, FALSE, FALSE)
         ELSE IF process[i] \in stdin_taken
           THEN last' = Result(i, "write_stdin", "StdinCaptureFailed", {}, TRUE, FALSE)
           ELSE \E r \in {"Ok", "ProcessExecution"} :
                   last' = Result(i, "write_stdin", r, {}, TRUE, FALSE)
    /\ UNCHANGED <<runnerVars, testerVars, twin, stdin_taken, mutex, owner, timeout, inst, process, rx, proc, spawner, overdue,
                   capPending, chanBuf, wpos, elapsed, wake>>

\* Executable::write_stdin
WriteStdin(i) == WriteStdinOp(i) /\ UNCHANGED rws

\* A mutant of Kill: it reports Ok without signalling the process or clearing the handle.
KillNoop(i) ==
    /\ Callable(i) /\ Call
    /\ last' = Result(i, "kill", "Ok", {}, is_running(i), FALSE)
    /\ UNCHANGED <<runnerVars, testerVars, twin, ioVars, owner, timeout, inst, process, rx, proc, spawner, overdue,
                   capPending, chanBuf, wpos, elapsed, wake>>

\* A mutant of Kill: without a handle it is an error, as for wait and write_stdin.
KillStrict(i) ==
    /\ Callable(i) /\ Call
    /\ IF process[i] # 0 /\ proc[process[i]] = "running"
         THEN \E ok \in BOOLEAN :
                IF ok
                  THEN /\ proc' = [proc EXCEPT ![process[i]] = "killed"]
                       /\ process' = [process EXCEPT ![i] = 0]
                       /\ last' = Result(i, "kill", "Ok", {}, TRUE, FALSE)
                  ELSE /\ last' = Result(i, "kill", "ProcessKillFailed", {}, TRUE, FALSE)
                       /\ UNCHANGED <<process, proc>>
         ELSE /\ process' = [process EXCEPT ![i] = 0]
              /\ last' = Result(i, "kill", IF process[i] = 0 THEN "NoProcessRunning" ELSE "Ok",
                                {}, FALSE, FALSE)
              /\ UNCHANGED proc
    /\ UNCHANGED <<runnerVars, testerVars, twin, ioVars, owner, timeout, inst, rx, spawner, overdue,
                   capPending, chanBuf, wpos, elapsed, wake>>

\* Executable::kill: with a handle, process.kill() (Ok on a process that has already
\* ended; on a running one it kills it or fails, and a failure returns before the
\* handle is cleared); then self.process = None.
Kill(i) ==
    /\ Callable(i) /\ Call
    /\ IF process[i] # 0 /\ proc[process[i]] = "running"
         THEN \E ok \in BOOLEAN :
                IF ok
                  THEN /\ proc' = [proc EXCEPT ![process[i]] = "killed"]
                       /\ process' = [process EXCEPT ![i] = 0]
                       /\ last' = Result(i, "kill", "Ok", {}, TRUE, FALSE)
                  ELSE /\ last' = Result(i, "kill", "ProcessKillFailed", {}, TRUE, FALSE)
                       /\ UNCHANGED <<process, proc>>
         ELSE /\ process' = [process EXCEPT ![i] = 0]
              /\ last' = Result(i, "kill", "Ok", {}, FALSE, FALSE)
              /\ UNCHANGED proc
    /\ UNCHANGED <<runnerVars, testerVars, twin, ioVars, owner, timeout, inst, rx, spawner, overdue,
                   capPending, chanBuf, wpos, elapsed, wake>>

\* Executable::try_wait: Ok(None) without a handle or while running, Ok(Some(status)) after.
TryWait(i) ==
    /\ Callable(i) /\ Call
    /\ last' = Result(i, "try_wait",
                      IF process[i] = 0 \/ is_running(i) THEN "None" ELSE "Some", {}, is_running(i), FALSE)
    /\ UNCHANGED <<runnerVars, testerVars, twin, ioVars, owner, timeout, inst, process, rx, proc, spawner, overdue,
                   capPending, chanBuf, wpos, elapsed, wake>>

\* A call of Executable::is_running.
ProbeIsRunning(i) ==
    /\ Callable(i) /\ Call
    /\ last' = Result(i, "is_running", IF is_running(i) THEN "true" ELSE "false", {}, is_running(i), FALSE)
    /\ UNCHANGED <<runnerVars, testerVars, twin, ioVars, owner, timeout, inst, process, rx, proc, spawner, overdue,
                   capPending, chanBuf, wpos, elapsed, wake>>

\* The entry of Executable::wait: start = Instant::now(); no handle is
\* NoProcessRunning.
WaitBeginOp(i) ==
    /\ Callable(i) /\ Call
    /\ IF process[i] = 0
         THEN /\ last' = Result(i, "wait", "NoProcessRunning", {}, FALSE, FALSE)
              /\ UNCHANGED <<wpos, elapsed, overdue>>
         ELSE /\ wpos' = [wpos EXCEPT ![i] = "poll"]
              /\ elapsed' = [elapsed EXCEPT ![i] = 0]
              /\ overdue' = [overdue EXCEPT ![i] = FALSE]
              /\ last' = Result(i, "wait", "polling", {}, is_running(i), FALSE)
    /\ UNCHANGED <<runnerVars, testerVars, twin, stdin_taken, mutex, owner, timeout, inst, process, rx, proc, spawner,
                   capPending, chanBuf, wake>>

\* Executable::wait, entry
WaitBegin(i) == WaitBeginOp(i) /\ UNCHANGED rws

\* The streams rx.try_iter() yields: everything buffered in this value's channel.
Drained(i) == IF rx[i] = 0 THEN {} ELSE chanBuf[rx[i]]

\* wait() returns res: the call is over.
WaitReturn(i, res, out, pre) ==
    /\ last' = [Result(i, "wait", res, out, pre, overdue[i])
                   EXCEPT !.status = IF res = "Ok" THEN process[i] ELSE 0]
    /\ wpos' = [wpos EXCEPT ![i] = "idle"]
    /\ elapsed' = [elapsed EXCEPT ![i] = 0]
    /\ wake' = [wake EXCEPT ![i] = 0]
    /\ overdue' = [overdue EXCEPT ![i] = FALSE]

\* A mutant of TimeoutKill: WaitTimeout is returned without killing the process.
TimeoutNoKill(i) ==
    /\ WaitReturn(i, "WaitTimeout", {}, TRUE)
    /\ UNCHANGED <<process, proc>>

\* self.kill()?; return Err(TesterError::WaitTimeout(self.timeout));
TimeoutKill(i) ==
    \E ok \in BOOLEAN :
        IF ok
          THEN /\ proc' = [proc EXCEPT ![process[i]] = "killed"]
               /\ process' = [process EXCEPT ![i] = 0]
               /\ WaitReturn(i, "WaitTimeout", {}, TRUE)
          ELSE /\ WaitReturn(i, "ProcessKillFailed", {}, TRUE)
               /\ UNCHANGED <<process, proc>>

\* A mutant of WaitPoll: the loop has no timeout check.
WaitPollNoTimeout(i) ==
    /\ inst[i] = "live" /\ wpos[i] = "poll"
    /\ IF proc[process[i]] # "running"
         THEN /\ WaitReturn(i, "Ok", Drained(i), FALSE)
              /\ chanBuf' = [p \in Pids |-> IF p = rx[i] THEN {} ELSE chanBuf[p]]
              /\ process' = [process EXCEPT ![i] = 0]
              /\ UNCHANGED proc
         ELSE /\ wpos' = [wpos EXCEPT ![i] = "sleep"]
              /\ wake' = [wake EXCEPT ![i] = elapsed[i] + PollInterval]
              /\ UNCHANGED <<process, proc, chanBuf, last, elapsed, overdue>>
    /\ UNCHANGED <<calls, runnerVars, testerVars, twin, ioVars, owner, timeout, inst, rx, spawner, capPending>>

\* A mutant of WaitPoll: the Ok return leaves the handle in place.
WaitPollKeepHandle(i) ==
    /\ inst[i] = "live" /\ wpos[i] = "poll"
    /\ IF proc[process[i]] # "running"
         THEN /\ WaitReturn(i, "Ok", Drained(i), FALSE)
              /\ chanBuf' = [p \in Pids |-> IF p = rx[i] THEN {} ELSE chanBuf[p]]
              /\ UNCHANGED <<process, proc>>
         ELSE IF elapsed[i] > timeout
           THEN /\ TimeoutKill(i)
                /\ UNCHANGED chanBuf
           ELSE /\ wpos' = [wpos EXCEPT ![i] = "sleep"]
                /\ wake' = [wake EXCEPT ![i] = elapsed[i] + PollInterval]
                /\ UNCHANGED <<process, proc, chanBuf, last, elapsed, overdue>>
    /\ UNCHANGED <<calls, runnerVars, testerVars, twin, ioVars, owner, timeout, inst, rx, spawner, capPending>>

\* A mutant of WaitPoll: the Ok return waits for the capture threads that have not
\* sent yet and returns their buffers too.
WaitPollJoin(i) ==
    /\ inst[i] = "live" /\ wpos[i] = "poll"
    /\ IF proc[process[i]] # "running"
         THEN /\ WaitReturn(i, "Ok",
                            IF rx[i] = 0 THEN {} ELSE chanBuf[rx[i]] \cup capPending[rx[i]], FALSE)
              /\ chanBuf' = [p \in Pids |-> IF p = rx[i] THEN {} ELSE chanBuf[p]]
              /\ capPending' = [p \in Pids |-> IF p = rx[i] THEN {} ELSE capPending[p]]
              /\ process' = [process EXCEPT ![i] = 0]
              /\ UNCHANGED proc
         ELSE IF elapsed[i] > timeout
           THEN /\ TimeoutKill(i)
                /\ UNCHANGED <<chanBuf, capPending>>
           ELSE /\ wpos' = [wpos EXCEPT ![i] = "sleep"]
                /\ wake' = [wake EXCEPT ![i] = elapsed[i] + PollInterval]
                /\ UNCHANGED <<process, proc, chanBuf, capPending, last, elapsed, overdue>>
    /\ UNCHANGED <<calls, runnerVars, testerVars, twin, ioVars, owner, timeout, inst, rx, spawner>>

\* Executable::wait, one iteration of the loop: try_wait; if the process has ended,
\* drain the channel without blocking, release the handle and return Ok; else if
\* start.elapsed() > self.timeout, kill and return WaitTimeout; else sleep.
WaitPoll(i) ==
    /\ inst[i] = "live" /\ wpos[i] = "poll"
    /\ IF proc[process[i]] # "running"
         THEN /\ WaitReturn(i, "Ok", Drained(i), FALSE)
              /\ chanBuf' = [p \in Pids |-> IF p = rx[i] THEN {} ELSE chanBuf[p]]
              /\ process' = [process EXCEPT ![i] = 0]
              /\ UNCHANGED proc
         ELSE IF elapsed[i] > timeout
           THEN /\ TimeoutKill(i)
                /\ UNCHANGED chanBuf
           ELSE /\ wpos' = [wpos EXCEPT ![i] = "sleep"]
                /\ wake' = [wake EXCEPT ![i] = elapsed[i] + PollInterval]
                /\ UNCHANGED <<process, proc, chanBuf, last, elapsed, overdue>>
    /\ UNCHANGED <<calls, runnerVars, testerVars, twin, ioVars, owner, timeout, inst, rx, spawner, capPending>>

\* thread::sleep(Duration::from_millis(100)) is over: back to the top of the loop.
WaitWake(i) ==
    /\ inst[i] = "live" /\ wpos[i] = "sleep" /\ elapsed[i] >= wake[i]
    /\ wpos' = [wpos EXCEPT ![i] = "poll"]
    /\ UNCHANGED <<calls, runnerVars, testerVars, twin, ioVars, owner, timeout, inst, process, rx, proc, spawner, overdue,
                   capPending, chanBuf, elapsed, wake, last>>

Waiting(i) == wpos[i] # "idle"

\* Time passes, by one tick for every wait() in progress. `overdue` notes a process
\* that is still running when more than the timeout has elapsed.
Tick ==
    /\ \E i \in Insts : Waiting(i)
    /\ \A i \in Insts : Waiting(i) => elapsed[i] < MaxTime
    /\ elapsed' = [i \in Insts |-> IF Waiting(i) THEN elapsed[i] + 1 ELSE elapsed[i]]
    /\ overdue' = [i \in Insts |->
                     overdue[i] \/ (Waiting(i) /\ is_running(i) /\ elapsed'[i] > timeout)]
    /\ wake' = [i \in Insts |-> IF elapsed'[i] >= wake[i] THEN 0 ELSE wake[i]]
    /\ UNCHANGED <<calls, runnerVars, testerVars, twin, ioVars, owner, timeout, inst, process, rx, proc, spawner,
                   capPending, chanBuf, wpos, last>>

\* The step whose function is executing on its worker thread, 0 when none is. Only
\* the worker of the current step can be executing: see C17.
Caller == IF index \in 1..NumSteps /\ worker[index] = "running" THEN index ELSE 0

\* A mutant of Clone: the clone is given the receiver of the value it is cloned from.
CloneSharedRx(i, j) ==
    /\ Callable(i) /\ Call
    /\ inst[j] = "absent" /\ \A k \in Insts : k < j => inst[k] # "absent"
    /\ inst' = [inst EXCEPT ![j] = "live"]
    /\ process' = [process EXCEPT ![j] = process[i]]
    /\ rx' = [rx EXCEPT ![j] = rx[i]]
    /\ owner' = [owner EXCEPT ![j] = Caller]
    /\ last' = Result(i, "clone", "Ok", {}, is_running(i), FALSE)
    /\ UNCHANGED <<runnerVars, testerVars, twin, ioVars, timeout, proc, spawner, overdue,
                   capPending, chanBuf, wpos, elapsed, wake>>

\* impl Clone for Executable: the Option<Arc<Mutex<Child>>> is shared, rx is None.
Clone(i, j) ==
    /\ Callable(i) /\ Call
    /\ inst[j] = "absent" /\ \A k \in Insts : k < j => inst[k] # "absent"
    /\ inst' = [inst EXCEPT ![j] = "live"]
    /\ process' = [process EXCEPT ![j] = process[i]]
    /\ rx' = [rx EXCEPT ![j] = 0]
    /\ owner' = [owner EXCEPT ![j] = Caller]
    /\ last' = Result(i, "clone", "Ok", {}, is_running(i), FALSE)
    /\ UNCHANGED <<runnerVars, testerVars, twin, ioVars, timeout, proc, spawner, overdue,
                   capPending, chanBuf, wpos, elapsed, wake>>

\* A mutant of Drop: the process is killed only when no other live value holds
\* the handle, as if the last owner of the Arc cleaned up.
DropLastHolder(i) ==
    /\ Callable(i) /\ Call
    /\ inst' = [inst EXCEPT ![i] = "dropped"]
    /\ IF is_running(i) /\ \A j \in Insts : (j # i /\ inst[j] = "live") => process[j] # process[i]
         THEN \E ok \in BOOLEAN :
                /\ proc' = IF ok THEN [proc EXCEPT ![process[i]] = "killed"] ELSE proc
                /\ last' = Result(i, "drop", IF ok THEN "Ok" ELSE "ProcessKillFailed", {}, TRUE, FALSE)
         ELSE /\ proc' = proc
              /\ last' = Result(i, "drop", "none", {}, is_running(i), FALSE)
    /\ process' = [process EXCEPT ![i] = 0]
    /\ rx' = [rx EXCEPT ![i] = 0]
    /\ capPending' = DropRx(capPending, i)
    /\ chanBuf' = DropRx(chanBuf, i)
    /\ UNCHANGED <<runnerVars, testerVars, twin, ioVars, owner, timeout, spawner, overdue, wpos, elapsed, wake>>

\* impl Drop for Executable: if self.is_running() { let _ = self.kill(); }
\* The call's record keeps what the kill returned ("none" when it was not made),
\* which drop itself discards.
Drop(i) ==
    /\ Callable(i) /\ Call
    /\ inst' = [inst EXCEPT ![i] = "dropped"]
    /\ IF is_running(i)
         THEN \E ok \in BOOLEAN :
                /\ proc' = IF ok THEN [proc EXCEPT ![process[i]] = "killed"] ELSE proc
                /\ last' = Result(i, "drop", IF ok THEN "Ok" ELSE "ProcessKillFailed", {}, TRUE, FALSE)
         ELSE /\ proc' = proc
              /\ last' = Result(i, "drop", "none", {}, FALSE, FALSE)
    /\ process' = [process EXCEPT ![i] = 0]
    /\ rx' = [rx EXCEPT ![i] = 0]
    /\ capPending' = DropRx(capPending, i)
    /\ chanBuf' = DropRx(chanBuf, i)
    /\ UNCHANGED <<runnerVars, testerVars, twin, ioVars, owner, timeout, spawner, overdue, wpos, elapsed, wake>>

\* The OS process ends on its own.
ProcessExit(p) ==
    /\ proc[p] = "running"
    /\ proc' = [proc EXCEPT ![p] = "exited"]
    /\ UNCHANGED <<calls, runnerVars, testerVars, twin, ioVars, owner, timeout, inst, process, rx, spawner, overdue,
                   capPending, chanBuf, wpos, elapsed, wake, last>>

\* A capture thread of process p: read_to_end returns once the process has ended and
\* the thread sends its buffer into the channel.
CaptureSend(p, s) ==
    /\ s \in capPending[p] /\ proc[p] \in {"exited", "killed"}
    /\ capPending' = [capPending EXCEPT ![p] = @ \ {s}]
    /\ chanBuf' = [chanBuf EXCEPT ![p] = @ \cup {s}]
    /\ UNCHANGED <<calls, runnerVars, testerVars, twin, ioVars, owner, timeout, inst, process, rx, proc, spawner, overdue,
                   wpos, elapsed, wake, last>>

\* run_with_stdin goes on to its next step, or returns the error of the step just
\* made: `?` after start and after write_stdin.
Proceed(r, i, op, res, next) ==
    [r EXCEPT ![i] =
        IF res = "Ok"
          THEN [@ EXCEPT !.pos = next, !.ops = Append(@, op)]
          ELSE [@ EXCEPT !.pos = "idle", !.ops = Append(@, op), !.ret = res]]

\* Executable::run_with_stdin, entry: self.start(args)?
RunStart(i) ==
    /\ rws[i].pos = "idle"
    /\ StartOp(i)
    /\ rws' = Proceed([rws EXCEPT ![i] = NoRun], i, "start", last'.res, "write")

\* self.write_stdin(stdin)?
RunWrite(i) ==
    /\ rws[i].pos = "write"
    /\ WriteStdinOp(i)
    /\ rws' = Proceed(rws, i, "write_stdin", last'.res, "close")

\* if let Some(process) = &self.process { process.lock().unwrap().stdin.take(); }
RunClose(i) ==
    /\ rws[i].pos = "close" /\ Callable(i)
    /\ stdin_taken' = IF process[i] # 0 THEN stdin_taken \cup {process[i]} ELSE stdin_taken
    /\ rws' = Proceed(rws, i, "close_stdin", "Ok", "wait")
    /\ UNCHANGED <<runnerVars, testerVars, twin, mutex, owner, timeout, inst, process, rx, proc,
                   spawner, overdue, capPending, chanBuf, wpos, elapsed, wake, calls, last>>

\* self.wait(), entry: without a handle it returns NoProcessRunning at once.
RunWait(i) ==
    /\ rws[i].pos = "wait"
    /\ WaitBeginOp(i)
    /\ rws' = Proceed(rws, i, "wait", IF last'.res = "polling" THEN "Ok" ELSE last'.res, "polling")

\* self.wait() has returned and run_with_stdin returns what it returned.
RunReturn(i) ==
    /\ rws[i].pos = "polling" /\ wpos[i] = "idle"
    /\ last.inst = i /\ last.op = "wait"
    /\ rws' = [rws EXCEPT ![i] = [@ EXCEPT !.pos = "idle", !.ret = last.res,
                                           !.out = last.out, !.status = last.status]]
    /\ UNCHANGED <<runnerVars, testerVars, twin, stdin_taken, mutex, owner, timeout, inst, process,
                   rx, proc, spawner, overdue, capPending, chanBuf, wpos, elapsed, wake,
                   calls, last>>

\* run_with_stdin on an Executable, with the clock, the process and its capture
\* threads.
NextRun ==
    \/ \E i \in Insts : RunStart(i)
    \/ \E i \in Insts : RunWrite(i)
    \/ \E i \in Insts : RunClose(i)
    \/ \E i \in Insts : RunWait(i)
    \/ \E i \in Insts : RunReturn(i)
    \/ \E i \in Insts : WaitPoll(i)
    \/ \E i \in Insts : WaitWake(i)
    \/ Tick
    \/ \E p \in Pids : ProcessExit(p)
    \/ \E p \in Pids, s \in Streams : CaptureSend(p, s)

InitExec ==
    /\ NoTester
    /\ steps = <<>> /\ is_debug = FALSE
    /\ RunnerIdle
    /\ ExecIdle
    /\ timeout \in 0..MaxTimeout
    /\ inst = [i \in Insts |-> IF i = 1 THEN "live" ELSE "absent"]

NextExec ==
    \/ \E i \in Insts : Start(i)
    \/ \E i \in Insts : WriteStdin(i)
    \/ \E i \in Insts : Kill(i)
    \/ \E i \in Insts : TryWait(i)
    \/ \E i \in Insts : ProbeIsRunning(i)
    \/ \E i \in Insts : WaitBegin(i)
    \/ \E i \in Insts : WaitPoll(i)
    \/ \E i \in Insts : WaitWake(i)
    \/ Tick
    \/ \E i, j \in Insts : Clone(i, j)
    \/ \E i \in Insts : Drop(i)
    \/ \E p \in Pids : ProcessExit(p)
    \/ \E p \in Pids, s \in Streams : CaptureSend(p, s)

SpecExec == InitExec /\ [][NextExec]_vars

SpecRun == InitExec /\ [][NextRun]_vars

\* ==========================================================================
\* The Mutex around the shared Child: each access of is_running, write_stdin,
\* kill, try_wait and of wait's poll is `process.lock().unwrap()`, the access,
\* and the release of the guard at the end of its scope
\* ==========================================================================

\* The methods that reach the Child through the lock, named by the access they make.
AccessOps == {"is_running", "write_stdin", "kill", "try_wait"}

\* A mutant of MutexLock: lock() returns although another thread holds the guard.
MutexLockBarge(i, op) ==
    /\ Callable(i) /\ calls < MaxCalls
    /\ mutex[i].pid = 0 /\ process[i] # 0
    /\ mutex' = [mutex EXCEPT ![i] = [pid |-> process[i], op |-> op, res |-> "none"]]
    /\ UNCHANGED <<runnerVars, testerVars, twin, stdin_taken, rws, owner, timeout, inst, process, rx,
                   proc, spawner, overdue, capPending, chanBuf, wpos, elapsed, wake, calls, last>>

\* process.lock().unwrap() returns: no other thread holds the guard of this Child.
MutexLock(i, op) ==
    /\ Callable(i) /\ calls < MaxCalls
    /\ mutex[i].pid = 0 /\ process[i] # 0
    /\ \A j \in Insts : mutex[j].pid # process[i]
    /\ mutex' = [mutex EXCEPT ![i] = [pid |-> process[i], op |-> op, res |-> "none"]]
    /\ UNCHANGED <<runnerVars, testerVars, twin, stdin_taken, rws, owner, timeout, inst, process, rx,
                   proc, spawner, overdue, capPending, chanBuf, wpos, elapsed, wake, calls, last>>

\* What the access can return, given the state of the process.
AccessResults(op, p) ==
    CASE op = "is_running" -> IF proc[p] = "running" THEN {"true"} ELSE {"false"}
      [] op = "try_wait" -> IF proc[p] = "running" THEN {"None"} ELSE {"Some"}
      [] op = "kill" -> IF proc[p] = "running" THEN {"Ok", "ProcessKillFailed"} ELSE {"Ok"}
      [] op = "write_stdin" -> IF p \in stdin_taken THEN {"StdinCaptureFailed"}
                                                    ELSE {"Ok", "ProcessExecution"}

\* The access made through the guard: try_wait(), kill() or stdin.write_all().
MutexAccess(i) ==
    /\ mutex[i].pid # 0 /\ mutex[i].res = "none" /\ Call
    /\ \E r \in AccessResults(mutex[i].op, mutex[i].pid) :
          /\ mutex' = [mutex EXCEPT ![i].res = r]
          /\ last' = Result(i, mutex[i].op, r, {}, proc[mutex[i].pid] = "running", FALSE)
          /\ proc' = IF mutex[i].op = "kill" /\ r = "Ok" /\ proc[mutex[i].pid] = "running"
                       THEN [proc EXCEPT ![mutex[i].pid] = "killed"]
                       ELSE proc
    /\ UNCHANGED <<runnerVars, testerVars, twin, stdin_taken, rws, owner, timeout, inst, process, rx,
                   spawner, overdue, capPending, chanBuf, wpos, elapsed, wake>>

\* The guard goes out of scope; kill then clears the handle: self.process = None.
MutexUnlock(i) ==
    /\ mutex[i].pid # 0 /\ mutex[i].res # "none"
    /\ mutex' = [mutex EXCEPT ![i] = NoGuard]
    /\ process' = IF mutex[i].op = "kill" /\ mutex[i].res = "Ok"
                    THEN [process EXCEPT ![i] = 0]
                    ELSE process
    /\ UNCHANGED <<runnerVars, testerVars, twin, stdin_taken, rws, owner, timeout, inst, rx,
                   proc, spawner, overdue, capPending, chanBuf, wpos, elapsed, wake, calls, last>>

\* start() on a value without a handle (is_running takes no lock then), and a
\* clone, by a thread that is not inside an access.
LockStart(i) == mutex[i].pid = 0 /\ process[i] = 0 /\ Start(i)
LockClone(i, j) == mutex[i].pid = 0 /\ Clone(i, j)

\* Threads, each with its own clone, reaching the shared Child.
NextLock ==
    \/ \E i \in Insts : LockStart(i)
    \/ \E i, j \in Insts : LockClone(i, j)
    \/ \E i \in Insts, op \in AccessOps : MutexLock(i, op)
    \/ \E i \in Insts : MutexAccess(i)
    \/ \E i \in Insts : MutexUnlock(i)
    \/ \E p \in Pids : ProcessExit(p)

SpecLock == InitExec /\ [][NextLock]_vars

\* The operations that bear on a wait() in progress: start, clone and kill (by
\* the threads that hold the other clones), wait itself, the clock and the exit
\* of the process.
NextWait ==
    \/ \E i \in Insts : Start(i)
    \/ \E i \in Insts : Kill(i)
    \/ \E i \in Insts : WaitBegin(i)
    \/ \E i \in Insts : WaitPoll(i)
    \/ \E i \in Insts : WaitWake(i)
    \/ Tick
    \/ \E i, j \in Insts : Clone(i, j)
    \/ \E p \in Pids : ProcessExit(p)

\* These operations with time passing and every thread that is inside wait()
\* scheduled: its poll and its wake-up from the sleep eventually happen. Nothing
\* is assumed of the processes (one may never exit) nor of the callers.
SpecExecLive ==
    /\ InitExec /\ [][NextWait]_vars
    /\ WF_vars(Tick)
    /\ \A i \in Insts : WF_vars(WaitPoll(i)) /\ WF_vars(WaitWake(i))

\* ==========================================================================
\* Claims about Executable (checked under SpecExec)
\* ==========================================================================

\* This step is a call of method op on value i (for wait: its entry).
Called(i, op) == calls' = calls + 1 /\ last'.inst = i /\ last'.op = op

\* This step is the return of the wait() in progress on value i.
WaitReturned(i) == wpos[i] = "poll" /\ wpos'[i] = "idle"

\* C5: a start() made while is_running() holds returns ProcessAlreadyRunning,
\* spawns no process and leaves the handle, the receiver and the capture
\* channels as they were.
C5_StartWhileRunning ==
    [][\A i \in Insts :
          (Called(i, "start") /\ is_running(i)) =>
              /\ last'.res = "ProcessAlreadyRunning"
              /\ proc' = proc /\ spawner' = spawner
              /\ process' = process /\ rx' = rx
              /\ capPending' = capPending /\ chanBuf' = chanBuf]_vars

\* A start() was just rejected and the process is still running.
C5_Witness ==
    /\ last.op = "start" /\ last.res = "ProcessAlreadyRunning"
    /\ is_running(last.inst)

\* C6 (as claimed): at most one process spawned by a given Executable value is
\* running at any time.
C6_AtMostOneAlive ==
    \A i \in Insts : Cardinality({p \in Pids : spawner[p] = i /\ proc[p] = "running"}) <= 1

\* C7: write_stdin() and wait() on a value that holds no handle (never started,
\* or released by kill() or by a wait() that returned) return NoProcessRunning,
\* spawn nothing and leave the value as it was.
C7_NoProcessRunning ==
    [][\A i \in Insts :
          (process[i] = 0 /\ (Called(i, "write_stdin") \/ Called(i, "wait"))) =>
              /\ last'.res = "NoProcessRunning"
              /\ proc' = proc /\ process' = process /\ rx' = rx /\ wpos' = wpos]_vars

\* wait() returned NoProcessRunning on a value whose process had been killed.
C7_Witness ==
    /\ last.op = "wait" /\ last.res = "NoProcessRunning"
    /\ process[last.inst] = 0
    /\ \E p \in Pids : spawner[p] = last.inst /\ proc[p] = "killed"

\* C8 (as claimed): a wait() during which the process was still running after
\* more than the timeout had elapsed returns WaitTimeout, and is_running() is
\* false afterwards (returns where the kill itself failed are left aside).
C8_TimeoutAlwaysKills ==
    (last.op = "wait" /\ last.res \in {"Ok", "WaitTimeout"} /\ last.overdue)
        => (last.res = "WaitTimeout" /\ ~is_running(last.inst))

\* C8 (amended): wait() sleeps on only while the process runs and no more than
\* the timeout has elapsed; it returns from a poll that finds the process ended
\* with Ok (also when the process ended after the timeout), and from a poll that
\* finds it running with more than the timeout elapsed by killing it and
\* returning WaitTimeout, or ProcessKillFailed when the kill fails; after Ok and
\* after WaitTimeout is_running() is false.
C8_TimeoutAtPoll ==
    [][\A i \in Insts :
          /\ WaitReturned(i) =>
                IF proc[process[i]] = "running"
                  THEN /\ elapsed[i] > timeout
                       /\ \/ /\ last'.res = "WaitTimeout"
                             /\ proc'[process[i]] = "killed"
                             /\ process'[i] = 0 /\ ~is_running(i)'
                          \/ /\ last'.res = "ProcessKillFailed"
                             /\ proc' = proc /\ process' = process
                  ELSE last'.res = "Ok" /\ process'[i] = 0 /\ ~is_running(i)' /\ proc' = proc
          /\ (wpos[i] = "poll" /\ wpos'[i] = "sleep") =>
                (proc[process[i]] = "running" /\ elapsed[i] <= timeout)]_vars

\* wait() returned WaitTimeout for a process that outlived the timeout, and the
\* process is gone.
C8_Witness ==
    /\ last.op = "wait" /\ last.res = "WaitTimeout" /\ last.overdue
    /\ ~is_running(last.inst)

\* C9: a kill() that returns Ok on a running process leaves is_running() false,
\* and is_running() of a value turns from false to true only in a start() on that
\* value that returns Ok.
C9_KillStopsRunning ==
    [][\A i \in Insts :
          /\ (Called(i, "kill") /\ last'.res = "Ok" /\ is_running(i)) => ~is_running(i)'
          /\ (inst[i] = "live" /\ ~is_running(i) /\ is_running(i)') =>
                (Called(i, "start") /\ last'.res = "Ok")]_vars

\* kill() returned Ok on a process that was running.
C9_Witness ==
    /\ last.op = "kill" /\ last.res = "Ok" /\ last.pre
    /\ ~is_running(last.inst)

\* C10 (as claimed): every running process is held by some live Executable value,
\* so none outlives the values that refer to it.
C10_NoOrphan ==
    \A p \in Pids :
        proc[p] = "running" => \E i \in Insts : inst[i] = "live" /\ process[i] = p

\* C11 (as claimed): a wait() that returns Ok, within the timeout, on the value
\* that started the process and holds its capture channel, for a process that
\* exited on its own, returns the buffers of both streams and the exit status of
\* that process.
C11_ExactOutput ==
    (/\ last.op = "wait" /\ last.res = "Ok" /\ ~last.overdue
     /\ last.status # 0
     /\ spawner[last.status] = last.inst /\ rx[last.inst] = last.status
     /\ proc[last.status] = "exited")
        => last.out = Streams

\* C13: a wait() that returns Ok returns the exit status of the process the value
\* held and releases the handle, so that is_running() is false; a start() on a
\* value without a handle is never rejected as already running, and when it
\* returns Ok the value holds the newly spawned process, whose status the next
\* wait() returns.
C13_RestartAfterWait ==
    [][\A i \in Insts :
          /\ (WaitReturned(i) /\ last'.res = "Ok") =>
                /\ last'.status = process[i]
                /\ process'[i] = 0 /\ ~is_running(i)'
          /\ (Called(i, "start") /\ process[i] = 0) =>
                /\ last'.res # "ProcessAlreadyRunning"
                /\ last'.res = "Ok" =>
                      /\ process'[i] = NewPid /\ proc[NewPid] = "none"
                      /\ rx'[i] = NewPid /\ is_running(i)']_vars

\* The same value was started, waited for, started again and waited for again, and
\* the second wait() returned the status of the second process.
C13_Witness ==
    /\ last.op = "wait" /\ last.res = "Ok" /\ last.status = 2
    /\ spawner[1] = last.inst /\ spawner[2] = last.inst
    /\ proc[1] = "exited" /\ proc[2] = "exited"
    /\ process[last.inst] = 0

\* ==========================================================================
\* Claims about the runner's workers (checked under SpecRunner)
\* ==========================================================================

\* C17: at most one step's function is executing at any time, a step's function
\* is started only when every earlier step has been started, its function has
\* returned and the step has passed, and this stays so after a step has timed out
\* and its worker has been abandoned.
C17_OneAtATime ==
    \A i \in 1..NumSteps :
        /\ worker[i] = "running" => \A j \in 1..NumSteps : j # i => worker[j] # "running"
        /\ Started(i) =>
              \A j \in 1..(i - 1) : worker[j] = "returned" /\ outcome[j] = "passed"

\* The run is over with the second step timed out and its abandoned worker still
\* executing, after a first step that passed.
C17_Witness ==
    /\ pc = "done" /\ NumSteps >= 2
    /\ outcome[1] = "passed" /\ worker[1] = "returned"
    /\ outcome[2] = "timedout" /\ worker[2] = "running"

\* Step i's run_teardown_funcs is executing: the runner holds the lock of the stack.
Draining(i) == lock[i] = "runner"

\* C18 (as claimed): run_teardown_funcs of a step never executes while that step's
\* worker is still running its function.
C18_DrainAfterWorker ==
    \A i \in 1..NumSteps : Draining(i) => worker[i] # "running"

\* C18 (amended): run_teardown_funcs of a step executes only after the step's
\* outcome is recorded; when the outcome is passed or failed the function has
\* returned, and only the worker of a timed-out step can still be running (and
\* registering) during or after the drain.
C18_DrainAfterOutcome ==
    \A i \in 1..NumSteps :
        /\ (Draining(i) \/ invoked[i] # <<>> \/ drains[i] > 0) => outcome[i] # "none"
        /\ outcome[i] \in {"passed", "failed"} => worker[i] = "returned"
        /\ (worker[i] = "running" /\ outcome[i] # "none") => outcome[i] = "timedout"
        /\ worker[i] = "unstarted" => registered[i] = <<>>

\* The drain of a failed step is under way, with registrations made by the
\* worker before it returned.
C18_Witness ==
    \E i \in 1..NumSteps :
        /\ Draining(i) /\ outcome[i] = "failed" /\ worker[i] = "returned"
        /\ Len(registered[i]) = MaxTeardowns /\ invoked[i] # <<>>

\* C19: once a step is recorded as timed out it stays timed out and the run never
\* returns true; the worker goes on and when its function returns afterwards (Ok
\* or Err), that changes neither the runner's position, the outcomes, the verdict
\* nor the log; and the runner's steps after the timeout do not touch the worker.
C19_LateResultDiscarded ==
    [][\A i \in 1..NumSteps :
          outcome[i] = "timedout" =>
              /\ outcome'[i] = "timedout" /\ result' # "true"
              /\ worker'[i] # worker[i] =>
                    (worker[i] = "running" /\ UNCHANGED <<pc, index, result, outcome, log, drains>>)
              /\ pc' # pc => worker'[i] = worker[i]]_vars

\* The run returned false for a timed-out step whose function returned Ok later.
C19_Witness ==
    /\ pc = "done" /\ result = "false"
    /\ \E i \in 1..NumSteps :
          /\ outcome[i] = "timedout"
          /\ fnResult[i].val = "ok" /\ fnResult[i].late
          /\ worker[i] \in {"returned", "panicked"}

\* ==========================================================================
\* A step's function at work on an Executable: Runner::run hands each step a
\* Harness around a clone of the run-level Executable, and the function gets its
\* own value from Harness::new_executable
\* ==========================================================================

\* The run-level Executable handed to Runner::run by reference. The copies made
\* of it for each Harness (Harness::new(executable.clone()), harness.clone()) are
\* reachable only through `&Executable`, so none of them can be started: they
\* stay as this value is, and it stands for all of them.
RunLevel == 1

\* Harness::new_executable, called by the executing function.
NewExecutable(j) == Caller # 0 /\ Clone(RunLevel, j)

\* The executing function calls a method on a value it got from new_executable,
\* or lets the value go out of scope.
StageCall(i) ==
    /\ Caller # 0 /\ owner[i] = Caller
    /\ \/ Start(i)
       \/ WriteStdin(i)
       \/ Kill(i)
       \/ TryWait(i)
       \/ WaitBegin(i)
       \/ Drop(i)

\* The executing function probes harness.executable() or a value of its own.
StageProbe(i) ==
    /\ Caller # 0 /\ (i = RunLevel \/ owner[i] = Caller)
    /\ ProbeIsRunning(i)

\* The wait() the function is blocked in goes on.
StageWait(i) ==
    /\ owner[i] # 0 /\ worker[owner[i]] = "running"
    /\ WaitPoll(i) \/ WaitWake(i)

\* The values the function of step s got from new_executable are all out of scope.
LocalsDropped(s) == \A i \in Insts : owner[i] = s => inst[i] = "dropped"

\* The function returns: its local values have been dropped by then.
StageReturn(s, r) == LocalsDropped(s) /\ WorkerReturn(s, r)

\* The function panics: unwinding has dropped its local values.
StagePanic(s) == LocalsDropped(s) /\ WorkerPanic(s)

InitStage ==
    /\ NoTester
    /\ steps \in UNION {[1..n -> [timeout : {0}]] : n \in 1..MaxSteps}
    /\ is_debug = FALSE
    /\ RunnerIdle
    /\ ExecIdle
    /\ timeout \in 0..MaxTimeout
    /\ inst = [i \in Insts |-> IF i = RunLevel THEN "live" ELSE "absent"]

NextStage ==
    \/ StartStep
    \/ ReturnTrue
    \/ RecvResult
    \/ RecvTimeout
    \/ RecvDisconnected
    \/ LockTeardown
    \/ PopTeardown
    \/ FinishTeardown
    \/ \E s \in StepIds : WorkerRegister(s)
    \/ \E s \in StepIds, r \in {"ok", "err"} : StageReturn(s, r)
    \/ \E s \in StepIds : StagePanic(s)
    \/ \E j \in Insts : NewExecutable(j)
    \/ \E i \in Insts : StageCall(i)
    \/ \E i \in Insts : StageProbe(i)
    \/ \E i \in Insts : StageWait(i)
    \/ Tick
    \/ \E p \in Pids : ProcessExit(p)
    \/ \E p \in Pids, st \in Streams : CaptureSend(p, st)

SpecStage == InitStage /\ [][NextStage]_vars

\* ==========================================================================
\* Claims about processes started by a step's function (checked under SpecStage)
\* ==========================================================================

\* C12 (as claimed): when Runner::run has returned after a step that timed out, it
\* returned false and no process that the step's function had started and that
\* was still running when the timeout was recorded is running any more.
C12_TimedOutProcessKilled ==
    \A s \in 1..NumSteps :
        (pc = "done" /\ outcome[s] = "timedout") =>
            /\ result = "false"
            /\ \A p \in liveAtOutcome[s] : proc[p] # "running"

\* C20 (as claimed): while a process started by a step's function through its
\* Harness is running and held by the value that started it, is_running() is true
\* on every live Executable of the run, and at most one process of the run is
\* running.
C20_SharedProcess ==
    /\ \A p \in Pids :
          (proc[p] = "running" /\ spawner[p] # 0 /\ process[spawner[p]] = p) =>
              \A i \in Insts : inst[i] = "live" => is_running(i)
    /\ Cardinality({p \in Pids : proc[p] = "running"}) <= 1

\* ==========================================================================
\* Context::from_env, Tester::new / validate / run and cli::run
\* ==========================================================================

Slugs == {"a", "b"}

\* A ContextCase of STACKCLASS_TEST_CASES_JSON.
ContextCase(sl, t, l) == [slug |-> sl, title |-> t, log_prefix |-> l]

\* The stage descriptors the requests are made of: two well-formed ones, and one
\* with each field empty in turn.
ContextCases ==
    {ContextCase("a", "t", "l"), ContextCase("b", "t", "l"),
     ContextCase("", "t", "l"), ContextCase("a", "", "l"), ContextCase("a", "t", "")}

\* The environments and callers: STACKCLASS_REPOSITORY_DIR present or not,
\* STACKCLASS_TEST_CASES_JSON absent, not a list of cases, or a list of at most
\* MaxSteps cases, the executable findable or not, and the caller: cli::run, or
\* code that calls Tester::new and then Tester::run itself.
Envs ==
    {[dir |-> d, json |-> j, cases |-> c, exe |-> x, entry |-> e] :
        d \in BOOLEAN, j \in {"absent", "malformed"}, c \in {<<>>},
        x \in BOOLEAN, e \in {"cli", "lib"}}
    \cup
    {[dir |-> d, json |-> "list", cases |-> c, exe |-> x, entry |-> e] :
        d \in BOOLEAN, c \in UNION {[1..n -> ContextCases] : n \in 0..MaxSteps},
        x \in BOOLEAN, e \in {"cli", "lib"}}

\* Context::find_executable: the path of the executable under the submission
\* directory, or ExecutableNotFound.
find_executable(e) == IF e.exe THEN "Ok" ELSE "ExecutableNotFound"

\* Context::from_env, in the order of its `?`s.
from_env(e) ==
    IF ~e.dir THEN [res |-> "MissingEnvVar", cases |-> <<>>]
    ELSE IF e.json = "absent" THEN [res |-> "MissingEnvVar", cases |-> <<>>]
    ELSE IF e.json = "malformed" THEN [res |-> "JsonParse", cases |-> <<>>]
    ELSE IF find_executable(e) # "Ok" THEN [res |-> find_executable(e), cases |-> <<>>]
    ELSE [res |-> "Ok", cases |-> e.cases]

NoCase == "None"

\* Definition::find_case: the first case with this slug, or None.
find_case(def, sl) == IF sl \in def THEN sl ELSE NoCase

\* A mutant of validate: only the first requested case is looked up.
validate_first(cases, def) ==
    IF cases # <<>> /\ find_case(def, cases[1].slug) = NoCase THEN "Err" ELSE "Ok"

\* Tester::validate: every requested slug must be found in the definition.
validate(cases, def) ==
    IF \E k \in 1..Len(cases) :
          \/ find_case(def, cases[k].slug) = NoCase
          \/ find_case(def, cases[k].slug) # cases[k].slug
      THEN "Err"
      ELSE "Ok"

\* The Step built for a requested case; Case::new gives the case 10 seconds.
Step(c) ==
    [timeout |-> DefaultTimeoutSecs, slug |-> c.slug, title |-> c.title,
     log_prefix |-> c.log_prefix]

\* A mutant of collect_steps: collecting stops at the first slug without a case.
collect_steps_until(cases, def) ==
    LET miss == {k \in 1..Len(cases) : find_case(def, cases[k].slug) = NoCase}
        n == IF miss = {} THEN Len(cases) - 1
             ELSE (CHOOSE k \in miss : \A m \in miss : k <= m) - 1
    IN [k \in 1..(IF n < 0 THEN 0 ELSE n) |-> Step(cases[k])]

\* Tester::collect_steps: filter_map over the requested cases, dropping those
\* whose slug has no case in the definition.
collect_steps(cases, def) ==
    LET Found(c) == find_case(def, c.slug) # NoCase
        kept == SelectSeq(cases, Found)
    IN [k \in 1..Len(kept) |-> Step(kept[k])]

\* cli::run maps what Tester::run returned to the exit code; a caller of the
\* library has no exit code.
ExitCode(e, ok) == IF e.entry = "cli" THEN (IF ok THEN "SUCCESS" ELSE "FAILURE") ELSE "none"

\* Tester::new: Context::from_env(env, &definition)?
TesterNew ==
    /\ cli.pc = "new"
    /\ context' = from_env(env)
    /\ cli' = IF from_env(env).res # "Ok"
                THEN [cli EXCEPT !.pc = "exit", !.code = ExitCode(env, FALSE)]
                ELSE [cli EXCEPT !.pc = IF env.entry = "cli" THEN "validate" ELSE "run"]
    /\ UNCHANGED <<runnerVars, execVars, twin, env, definition>>

\* A mutant of CliValidate: the result of validate is ignored.
CliValidateIgnored ==
    /\ cli.pc = "validate"
    /\ cli' = [cli EXCEPT !.validated = validate(context.cases, definition), !.pc = "run"]
    /\ UNCHANGED <<runnerVars, execVars, twin, env, definition, context>>

\* cli::run: if let Err(err) = tester.validate() { return ExitCode::FAILURE; }
CliValidate ==
    /\ cli.pc = "validate"
    /\ LET v == validate(context.cases, definition) IN
        cli' = IF v = "Ok"
                 THEN [cli EXCEPT !.validated = v, !.pc = "run"]
                 ELSE [cli EXCEPT !.validated = v, !.pc = "exit", !.code = "FAILURE"]
    /\ UNCHANGED <<runnerVars, execVars, twin, env, definition, context>>

\* Tester::run, entry: build_runner() collects the steps, get_executable() makes the
\* Executable (Executable::new fails on a file that is not executable), and
\* Runner::run starts.
TesterRun ==
    /\ cli.pc = "run"
    /\ \E usable \in BOOLEAN :
          IF usable
            THEN /\ steps' = collect_steps(context.cases, definition)
                 /\ cli' = [cli EXCEPT !.pc = "running"]
            ELSE /\ steps' = steps
                 /\ cli' = [cli EXCEPT !.pc = "exit", !.run = "Err",
                                       !.code = ExitCode(env, FALSE)]
    /\ UNCHANGED <<execVars, twin, env, definition, context, is_debug, pc, index, result, worker,
                   chan, teardown_funcs, lock, outcome, registered, concludedAt, invoked,
                   drains, fnResult, liveAtOutcome, log>>

\* Runner::run at work for the Tester, with case functions that return Ok or Err or
\* keep running past the timeout (and register no teardown function).
RunnerStep ==
    /\ cli.pc = "running" \/ (cli.pc = "exit" /\ cli.run \in {"true", "false"})
    /\ \/ StartStep
       \/ ReturnTrue
       \/ RecvResult
       \/ RecvTimeout
       \/ LockTeardown
       \/ FinishTeardown
       \/ \E i \in StepIds, r \in {"ok", "err"} : WorkerReturn(i, r)

\* Runner::run has returned: Tester::run returns Ok(verdict) and cli::run maps it
\* to the exit code.
TesterRunReturn ==
    /\ cli.pc = "running" /\ pc = "done"
    /\ cli' = [cli EXCEPT !.pc = "exit", !.run = result,
                          !.code = ExitCode(env, result = "true")]
    /\ UNCHANGED <<runnerVars, execVars, twin, env, definition, context>>

InitTester ==
    /\ env \in Envs
    /\ definition \in SUBSET Slugs
    /\ context = [res |-> "none", cases |-> <<>>]
    /\ cli = [pc |-> "new", validated |-> "none", run |-> "none", code |-> "none"]
    /\ steps = <<>> /\ is_debug = FALSE
    /\ RunnerIdle
    /\ ExecIdle
    /\ timeout = 0
    /\ inst = [i \in Insts |-> IF i = RunLevel THEN "live" ELSE "absent"]

NextTester ==
    \/ TesterNew
    \/ CliValidate
    \/ TesterRun
    \/ RunnerStep
    \/ TesterRunReturn

SpecTester == InitTester /\ [][NextTester]_vars

\* ==========================================================================
\* Claims about Context, Tester and cli::run (checked under SpecTester)
\* ==========================================================================

\* Tester::run has returned a verdict.
HasVerdict == cli.run \in {"true", "false"}

\* The requested cases whose slug the definition has, in the requested order.
Matched ==
    LET InCatalog(c) == c.slug \in definition IN SelectSeq(context.cases, InCatalog)

C15_ValidateGate ==
    /\ cli.validated # "none" =>
          (cli.validated = "Err" <=>
              \E k \in 1..Len(context.cases) : context.cases[k].slug \notin definition)
    /\ cli.validated = "Err" =>
          /\ cli.pc = "exit" /\ cli.code = "FAILURE" /\ cli.run = "none"
          /\ steps = <<>> /\ pc = "start"
          /\ \A i \in StepIds : worker[i] = "unstarted"
          /\ \A p \in Pids : proc[p] = "none"

\* cli::run returned failure from the validate gate for a request of which the
\* first stage has a catalog case and a later one has none.
C15_Witness ==
    /\ cli.validated = "Err" /\ cli.code = "FAILURE"
    /\ Len(context.cases) >= 2
    /\ context.cases[1].slug \in definition

\* A ContextCase with an empty slug, title or log_prefix.
Blank(c) == c.slug = "" \/ c.title = "" \/ c.log_prefix = ""

\* C16 (as claimed): from_env returns MissingEnvVar when either variable is
\* absent, and InvalidTestCase when the stage list is empty or has a descriptor
\* with an empty slug, title or log_prefix (the executable being findable).
C16_RejectsInvalid ==
    context.res # "none" =>
        /\ (~env.dir \/ env.json = "absent") => context.res = "MissingEnvVar"
        /\ (/\ env.dir /\ env.json = "list" /\ env.exe
            /\ \/ env.cases = <<>>
               \/ \E k \in 1..Len(env.cases) : Blank(env.cases[k]))
              => context.res = "InvalidTestCase"

\* ==========================================================================
\* More claims about Executable (checked under SpecExec)
\* ==========================================================================

C27_KillIdempotent ==
    [][\A i \in Insts :
          Called(i, "kill") =>
              /\ last'.res \in {"Ok", "ProcessKillFailed"}
              /\ process[i] = 0 =>
                    /\ last'.res = "Ok"
                    /\ UNCHANGED <<process, rx, proc, inst, spawner, capPending, chanBuf, wpos>>
              /\ last'.res = "Ok" =>
                    /\ process'[i] = 0 /\ ~is_running(i)'
                    /\ \A j \in Insts : j # i => process'[j] = process[j]
              /\ last'.res = "ProcessKillFailed" =>
                    /\ is_running(i)
                    /\ UNCHANGED <<process, proc>>]_vars

\* kill() returned Ok on a value that holds no handle any more, its process having
\* been killed before.
C27_Witness ==
    /\ last.op = "kill" /\ last.res = "Ok" /\ ~last.pre
    /\ process[last.inst] = 0
    /\ \E p \in Pids : spawner[p] = last.inst /\ proc[p] = "killed"
    /\ \A j \in Insts : j # last.inst => inst[j] = "absent"

CaptureFailed == {"StdoutCaptureFailed", "StderrCaptureFailed"}

\* C28 (as claimed): a start() that fails for another reason than a process
\* already running returns ProcessExecution, whether the spawn failed or a stream
\* could not be taken.
C28_CaptureIsExecution ==
    (last.op = "start" /\ last.res \notin {"Ok", "ProcessAlreadyRunning"})
        => last.res = "ProcessExecution"

\* C28 (amended): a start() on a value that is not running returns Ok,
\* ProcessExecution, StdoutCaptureFailed or StderrCaptureFailed; ProcessExecution
\* means that the spawn failed and nothing was created; StdoutCaptureFailed and
\* StderrCaptureFailed mean that the process was spawned and is running but the
\* stream could not be taken, and the value's handle and receiver are as before.
C28_StartErrors ==
    [][\A i \in Insts :
          (Called(i, "start") /\ ~is_running(i)) =>
              /\ last'.res \in {"Ok", "ProcessExecution"} \cup CaptureFailed
              /\ last'.res = "ProcessExecution" =>
                    UNCHANGED <<proc, spawner, process, rx, capPending, chanBuf>>
              /\ last'.res \in CaptureFailed =>
                    /\ proc[NewPid] = "none" /\ proc'[NewPid] = "running"
                    /\ spawner'[NewPid] = i
                    /\ UNCHANGED <<process, rx, capPending, chanBuf>>
              /\ last'.res = "Ok" =>
                    /\ proc[NewPid] = "none" /\ proc'[NewPid] = "running"
                    /\ process'[i] = NewPid /\ rx'[i] = NewPid]_vars

\* start() returned StderrCaptureFailed and the process it spawned is running,
\* held by no value.
C28_Witness ==
    /\ last.op = "start" /\ last.res = "StderrCaptureFailed"
    /\ \E p \in Pids :
          /\ proc[p] = "running" /\ spawner[p] = last.inst
          /\ \A i \in Insts : process[i] # p

\* The live values other than i that hold the handle value i holds.
Sharers(i) == {j \in Insts : j # i /\ inst[j] = "live" /\ process[j] = process[i]}

Range(f) == {f[a] : a \in 1..Len(f)}

\* C26 (as claimed): once the cleanup of a step has run, the step's stack is empty.
C26_EmptyAfterCleanup ==
    \A i \in 1..NumSteps : drains[i] >= 1 => teardown_funcs[i] = <<>>

\* C26 (amended): the stack of a step that has not started is empty; a
\* registration made by the function of step i goes onto the stack of step i and
\* no other, and an invocation made during the cleanup of step i pops the stack
\* of step i and no other; the stack is empty when the cleanup returns, and it is
\* non-empty afterwards only for a timed-out step whose abandoned worker went on
\* registering, with actions registered after the timeout that are not invoked.
C26_FreshStack ==
    /\ [](\A i \in 1..NumSteps :
            /\ worker[i] = "unstarted" => (teardown_funcs[i] = <<>> /\ registered[i] = <<>>)
            /\ Range(teardown_funcs[i]) \subseteq Range(registered[i])
            /\ Range(invoked[i]) \subseteq Range(registered[i])
            /\ Range(teardown_funcs[i]) \cap Range(invoked[i]) = {}
            /\ (drains[i] >= 1 /\ teardown_funcs[i] # <<>>) =>
                  /\ outcome[i] = "timedout"
                  /\ \A id \in Range(teardown_funcs[i]) : id > concludedAt[i])
    /\ [][\A i \in 1..NumSteps :
            /\ registered'[i] # registered[i] =>
                  /\ teardown_funcs'[i] = Append(teardown_funcs[i], registered'[i][Len(registered'[i])])
                  /\ \A j \in StepIds : j # i => teardown_funcs'[j] = teardown_funcs[j]
            /\ invoked'[i] # invoked[i] =>
                  /\ index = i /\ lock[i] = "runner"
                  /\ teardown_funcs[i] # <<>>
                  /\ invoked'[i] = Append(invoked[i], teardown_funcs[i][Len(teardown_funcs[i])])
                  /\ teardown_funcs'[i] = SubSeq(teardown_funcs[i], 1, Len(teardown_funcs[i]) - 1)
                  /\ \A j \in StepIds : j # i =>
                        (teardown_funcs'[j] = teardown_funcs[j] /\ invoked'[j] = invoked[j])
            /\ drains'[i] # drains[i] => (teardown_funcs[i] = <<>> /\ teardown_funcs'[i] = <<>>)
            /\ (worker[i] = "unstarted" /\ worker'[i] = "running") => teardown_funcs'[i] = <<>>]_vars

\* The cleanup of a timed-out second step has run and invoked what was registered
\* in time, and an action its abandoned worker registered afterwards sits on the
\* stack.
C26_Witness ==
    /\ NumSteps >= 2 /\ outcome[1] = "passed" /\ invoked[1] # <<>>
    /\ outcome[2] = "timedout" /\ drains[2] = 1
    /\ invoked[2] # <<>> /\ teardown_funcs[2] # <<>>

C22_RunReturns == <>(pc = "done" /\ result \in {"true", "false"})

\* Runner::run has returned while the worker of the step that timed out is still
\* executing its function, after the step's teardown functions were invoked.
C22_Witness ==
    /\ pc = "done" /\ result = "false"
    /\ index \in 1..NumSteps /\ worker[index] = "running"
    /\ fnResult[index].val = "none"
    /\ Len(invoked[index]) = MaxTeardowns

\* ==========================================================================
\* Termination of Executable::wait (checked under SpecExecLive)
\* ==========================================================================

\* C23: every wait() in progress eventually returns, also when the process never
\* exits; it returns Ok only from a poll that finds the process ended, and an
\* error only from a poll that finds it running with more than the timeout
\* elapsed.
C23_WaitReturns ==
    /\ \A i \in Insts : (wpos[i] # "idle") ~> (wpos[i] = "idle")
    /\ [][\A i \in Insts :
            WaitReturned(i) =>
                \/ last'.res = "Ok" /\ proc[process[i]] # "running"
                \/ /\ last'.res \in {"WaitTimeout", "ProcessKillFailed"}
                   /\ proc[process[i]] = "running" /\ elapsed[i] > timeout]_vars

\* wait() returned WaitTimeout at the largest timeout on a process that never
\* exited on its own.
C23_Witness ==
    /\ timeout = MaxTimeout
    /\ last.op = "wait" /\ last.res = "WaitTimeout"
    /\ wpos[last.inst] = "idle"
    /\ \E p \in Pids : spawner[p] = last.inst /\ proc[p] = "killed"
    /\ \A p \in Pids : proc[p] # "exited"

\* ==========================================================================
\* Claims about run_with_stdin (checked under SpecRun)
\* ==========================================================================

RunOrder == <<"start", "write_stdin", "close_stdin", "wait">>

\* The process the last start() on value i spawned, 0 if none.
RunPid(i) ==
    LET mine == {p \in Pids : spawner[p] = i}
    IN IF mine = {} THEN 0 ELSE CHOOSE p \in mine : \A q \in mine : q <= p

\* C24 (as claimed): a run_with_stdin that has returned performed start,
\* write_stdin, the closing of stdin and wait in this order, up to the first that
\* failed, whose error it returned; and when its start succeeded and the process
\* it spawned has exited on its own by then (the write not having failed on the
\* pipe), it returned Ok with the exit status of that process and the buffers of
\* both streams.
C24_RunWithStdin ==
    \A i \in Insts :
        (rws[i].pos = "idle" /\ rws[i].ops # <<>>) =>
            /\ rws[i].ops = SubSeq(RunOrder, 1, Len(rws[i].ops))
            /\ rws[i].ret # "Ok" => rws[i].ret # "none"
            /\ (/\ Len(rws[i].ops) > 1
                /\ rws[i].ret # "ProcessExecution"
                /\ RunPid(i) # 0 /\ proc[RunPid(i)] = "exited")
                  => /\ rws[i].ret = "Ok"
                     /\ rws[i].status = RunPid(i)
                     /\ rws[i].out = Streams

\* ==========================================================================
\* Claims about the Mutex around the shared Child (checked under SpecLock)
\* ==========================================================================

C31_CloneNoCapture ==
    /\ [](\A i \in Insts : rx[i] # 0 => spawner[rx[i]] = i)
    /\ [][\A i \in Insts :
            /\ Called(i, "clone") =>
                  \A j \in Insts : (inst[j] = "absent" /\ inst'[j] = "live") =>
                      (rx'[j] = 0 /\ process'[j] = process[i])
            /\ (WaitReturned(i) /\ last'.res = "Ok" /\ spawner[process[i]] # i) =>
                  (last'.status = process[i] /\ last'.out = {} /\ chanBuf' = chanBuf)
            /\ (WaitReturned(i) /\ last'.out # {}) =>
                  (spawner[process[i]] = i /\ rx[i] = process[i])]_vars

\* wait() on a clone returned Ok with nothing captured although both capture threads
\* of the process had sent their buffers into the starter's channel.
C31_Witness ==
    /\ last.op = "wait" /\ last.res = "Ok" /\ last.out = {}
    /\ last.status # 0 /\ spawner[last.status] # last.inst
    /\ rx[last.inst] = 0
    /\ chanBuf[last.status] = Streams
    /\ rx[spawner[last.status]] = last.status

\* ==========================================================================
\* Claims about the teardown lock and the debug flag (checked under SpecRunner)
\* ==========================================================================

\* C32: run_teardown_funcs holds the lock of the step's teardown stack from its
\* first pop to its return and is called once for a step; while it holds the lock
\* no registration is made on that stack, which only shrinks; a registration is
\* made with the lock free, so one attempted during the drain is made after it;
\* and once the drain of a step has returned nothing more is invoked from its
\* stack, so what is registered afterwards stays on the stack uninvoked.
C32_DrainHoldsLock ==
    /\ [](\A i \in StepIds :
            /\ lock[i] = "runner" <=> (index = i /\ pc = "draining")
            /\ drains[i] <= 1
            /\ drains[i] = 1 => (lock[i] = "free" /\ Range(teardown_funcs[i]) \cap Range(invoked[i]) = {}))
    /\ [][\A i \in StepIds :
            /\ lock[i] = "runner" =>
                  /\ registered'[i] = registered[i]
                  /\ Len(teardown_funcs'[i]) <= Len(teardown_funcs[i])
            /\ registered'[i] # registered[i] => (lock[i] = "free" /\ lock'[i] = "free")
            /\ drains[i] = 1 =>
                  /\ invoked'[i] = invoked[i]
                  /\ Len(teardown_funcs'[i]) >= Len(teardown_funcs[i])]_vars

\* The run has returned false after a timed-out first step whose cleanup invoked
\* one action, and the abandoned worker has registered another one since.
C32_Witness ==
    /\ pc = "done" /\ result = "false" /\ outcome[1] = "timedout" /\ drains[1] = 1
    /\ Len(invoked[1]) = 1 /\ Len(teardown_funcs[1]) = 1
    /\ Len(registered[1]) = 2 /\ worker[1] = "running"

\* ==========================================================================
\* Claims about a process that ended before wait() (checked under SpecExec)
\* ==========================================================================

\* C33: a process that ends on its own leaves the handle and the receiver of the
\* values holding it in place. On a value whose process has exited and has not
\* been waited for, write_stdin() returns NoProcessRunning; wait() is not refused
\* with NoProcessRunning and returns Ok with the status of that process; start()
\* is not refused as already running, and when it returns Ok the value holds the
\* new process and a new receiver and the old channel is dropped. A wait() that
\* returns Ok returns what the channel of the process it held has buffered, never
\* the output of an earlier process.
C33_ExitedBeforeWait ==
    [][/\ \A p \in Pids : (proc[p] = "running" /\ proc'[p] = "exited") =>
              (process' = process /\ rx' = rx /\ chanBuf' = chanBuf)
       /\ \A i \in Insts :
            /\ (process[i] # 0 /\ proc[process[i]] = "exited") =>
                  /\ Called(i, "write_stdin") =>
                        (last'.res = "NoProcessRunning" /\ process' = process)
                  /\ Called(i, "wait") =>
                        (last'.res = "polling" /\ wpos'[i] = "poll" /\ process' = process)
                  /\ WaitReturned(i) =>
                        (last'.res = "Ok" /\ last'.status = process[i] /\ process'[i] = 0)
                  /\ Called(i, "start") =>
                        /\ last'.res # "ProcessAlreadyRunning"
                        /\ last'.res = "Ok" =>
                              /\ proc[NewPid] = "none" /\ proc'[NewPid] = "running"
                              /\ process'[i] = NewPid /\ rx'[i] = NewPid
                              /\ rx[i] # 0 => (chanBuf'[rx[i]] = {} /\ capPending'[rx[i]] = {})
            /\ (WaitReturned(i) /\ last'.res = "Ok") =>
                  /\ rx[i] \in {0, process[i]}
                  /\ last'.out = (IF rx[i] = 0 THEN {} ELSE chanBuf[process[i]])]_vars

\* The value was started, its process exited and was not waited for, it was started
\* again, and the one wait() made returned the second process's status and output.
C33_Witness ==
    /\ calls = 3 /\ last.op = "wait" /\ last.res = "Ok" /\ last.status = 2
    /\ spawner[1] = last.inst /\ spawner[2] = last.inst
    /\ proc[1] = "exited" /\ proc[2] = "exited"
    /\ last.out = Streams /\ chanBuf[1] = {}

\* ==========================================================================
\* Two calls of Runner::run on the same steps, one with is_debug = TRUE and one
\* with is_debug = FALSE, whose workers and timers behave alike. Each operator
\* gives the run after the event; a run the event does not apply to stays as it is.
\* ==========================================================================

\* The loop header and body up to thread::spawn, for call r.
StartStepOf(r) ==
    IF r.pc = "start" /\ r.index <= NumSteps
      THEN [r EXCEPT !.worker[r.index] = "running",
                     !.teardown_funcs[r.index] = <<>>,
                     !.chan[r.index] = <<>>,
                     !.log = Append(@, Line("Running tests", 0)),
                     !.pc = "recv"]
      ELSE r

\* The loop is over: true.
ReturnTrueOf(r) ==
    IF r.pc = "start" /\ r.index > NumSteps
      THEN [r EXCEPT !.result = "true", !.pc = "done"]
      ELSE r

\* The arm's value is bound to `result`, its lines are logged, and the call goes on
\* to harness.run_teardown_funcs().
ConcludeOf(r, o, lines) ==
    [r EXCEPT !.outcome[r.index] = o, !.log = @ \o lines, !.pc = "teardown"]

\* A mutant of RecvResultOf: with is_debug the Ok(Err(err)) arm yields true.
RecvResultDebugPasses(r, d) ==
    IF r.pc = "recv" /\ r.chan[r.index] # <<>>
      THEN LET v == Head(r.chan[r.index])
               q == [r EXCEPT !.chan[r.index] = Tail(@)] IN
           IF v = "ok"
             THEN ConcludeOf(q, "passed", <<Line("Test passed.", 0)>>)
             ELSE ConcludeOf(q, IF d THEN "passed" ELSE "failed",
                             report_test_error(Line("fail", 0), d))
      ELSE r

\* recv_timeout returns the worker's result: the Ok(Ok(())) and Ok(Err(err)) arms,
\* the latter with report_test_error(&err, is_debug).
RecvResultOf(r, d) ==
    IF r.pc = "recv" /\ r.chan[r.index] # <<>>
      THEN LET v == Head(r.chan[r.index])
               q == [r EXCEPT !.chan[r.index] = Tail(@)] IN
           IF v = "ok"
             THEN ConcludeOf(q, "passed", <<Line("Test passed.", 0)>>)
             ELSE ConcludeOf(q, "failed", report_test_error(Line("fail", 0), d))
      ELSE r

\* recv_timeout returns Err (the timeout has elapsed, or the worker died without
\* sending): the Err(_) arm, with report_test_error(&err, is_debug).
RecvErrOf(r, d, gone) ==
    IF r.pc = "recv" /\ r.chan[r.index] = <<>>
       /\ r.worker[r.index] = (IF gone THEN "panicked" ELSE "running")
      THEN ConcludeOf(r, "timedout",
                      report_test_error(Line("timed out", default_timeout(steps[r.index].timeout)), d))
      ELSE r

\* run_teardown_funcs: lock.
LockTeardownOf(r) ==
    IF r.pc = "teardown" /\ r.lock[r.index] = "free"
      THEN [r EXCEPT !.lock[r.index] = "runner", !.pc = "draining"]
      ELSE r

\* while let Some(func) = funcs.pop() { func(); }
PopTeardownOf(r) ==
    IF r.pc = "draining" /\ r.teardown_funcs[r.index] # <<>>
      THEN LET n == Len(r.teardown_funcs[r.index]) IN
           [r EXCEPT !.invoked[r.index] = Append(@, r.teardown_funcs[r.index][n]),
                     !.teardown_funcs[r.index] = SubSeq(@, 1, n - 1)]
      ELSE r

\* run_teardown_funcs returns; `if !result { return false; }` or the next iteration.
FinishTeardownOf(r) ==
    IF r.pc = "draining" /\ r.teardown_funcs[r.index] = <<>>
      THEN IF r.outcome[r.index] = "passed"
             THEN [r EXCEPT !.lock[r.index] = "free", !.index = @ + 1, !.pc = "start"]
             ELSE [r EXCEPT !.lock[r.index] = "free", !.pc = "done", !.result = "false"]
      ELSE r

\* The function of step i calls register_teardown_func.
WorkerRegisterOf(r, i) ==
    IF r.worker[i] = "running" /\ r.lock[i] = "free" /\ Len(r.registered[i]) < MaxTeardowns
      THEN [r EXCEPT !.teardown_funcs[i] = Append(@, Len(r.registered[i]) + 1),
                     !.registered[i] = Append(@, Len(r.registered[i]) + 1)]
      ELSE r

\* The function of step i returns v and the worker sends it; with the receiver gone
\* the unwrap panics.
WorkerReturnOf(r, i, v) ==
    IF r.worker[i] = "running"
      THEN IF r.index = i /\ r.pc \in {"recv", "teardown", "draining"}
             THEN [r EXCEPT !.chan[i] = Append(@, v), !.worker[i] = "returned"]
             ELSE [r EXCEPT !.worker[i] = "panicked"]
      ELSE r

\* The function of step i panics.
WorkerPanicOf(r, i) ==
    IF r.worker[i] = "running" THEN [r EXCEPT !.worker[i] = "panicked"] ELSE r

\* The event happens in both calls.
Twins(next) ==
    /\ next # twin
    /\ twin' = next
    /\ UNCHANGED <<runnerVars, execVars, testerVars>>

TwinStartStep == Twins([d \in BOOLEAN |-> StartStepOf(twin[d])])
TwinReturnTrue == Twins([d \in BOOLEAN |-> ReturnTrueOf(twin[d])])
TwinRecvResult == Twins([d \in BOOLEAN |-> RecvResultOf(twin[d], d)])
TwinRecvTimeout == Twins([d \in BOOLEAN |-> RecvErrOf(twin[d], d, FALSE)])
TwinRecvDisconnected == Twins([d \in BOOLEAN |-> RecvErrOf(twin[d], d, TRUE)])
TwinLockTeardown == Twins([d \in BOOLEAN |-> LockTeardownOf(twin[d])])
TwinPopTeardown == Twins([d \in BOOLEAN |-> PopTeardownOf(twin[d])])
TwinFinishTeardown == Twins([d \in BOOLEAN |-> FinishTeardownOf(twin[d])])
TwinWorkerRegister(i) == Twins([d \in BOOLEAN |-> WorkerRegisterOf(twin[d], i)])
TwinWorkerReturn(i, v) == Twins([d \in BOOLEAN |-> WorkerReturnOf(twin[d], i, v)])
TwinWorkerPanic(i) == Twins([d \in BOOLEAN |-> WorkerPanicOf(twin[d], i)])

InitDebug ==
    /\ InitRunner
    /\ is_debug = FALSE

NextDebug ==
    \/ TwinStartStep
    \/ TwinReturnTrue
    \/ TwinRecvResult
    \/ TwinRecvTimeout
    \/ TwinRecvDisconnected
    \/ TwinLockTeardown
    \/ TwinPopTeardown
    \/ TwinFinishTeardown
    \/ \E i \in StepIds : TwinWorkerRegister(i)
    \/ \E i \in StepIds, v \in {"ok", "err"} : TwinWorkerReturn(i, v)
    \/ \E i \in StepIds : TwinWorkerPanic(i)

SpecDebug == InitDebug /\ [][NextDebug]_vars

\* What a call has done, apart from what it has logged.
DebugObs(r) == [r EXCEPT !.log = <<>>]

\* C34: two calls of Runner::run on the same steps that differ only in is_debug,
\* with workers and timers that behave alike, are at every moment at the same
\* position with the same steps started, the same outcomes recorded, the same
\* teardown functions registered and invoked and the same verdict; their logs have
\* the same length and differ only where one has the line "Test failed" and the
\* other the line with the hint.
C34_DebugIndependent ==
    /\ DebugObs(twin[TRUE]) = DebugObs(twin[FALSE])
    /\ Len(twin[TRUE].log) = Len(twin[FALSE].log)
    /\ \A k \in 1..Len(twin[TRUE].log) :
          twin[TRUE].log[k] # twin[FALSE].log[k] =>
              /\ twin[TRUE].log[k] = Line("Test failed", 0)
              /\ twin[FALSE].log[k] = Line("Test failed (hint)", 0)

\* Both calls have returned false after a first step that passed and a second that
\* failed, each cleanup invoked an action, and the two logs differ.
C34_Witness ==
    /\ \A d \in BOOLEAN :
          /\ twin[d].pc = "done" /\ twin[d].result = "false"
          /\ twin[d].outcome[1] = "passed" /\ twin[d].outcome[2] = "failed"
          /\ twin[d].invoked[1] # <<>> /\ twin[d].invoked[2] # <<>>
    /\ twin[TRUE].log # twin[FALSE].log

====
